---- MODULE Spec2Model ----
(***************************************************************************)
(* Accounting and workflow engine of the Gmail reward bot (src/bot.py).    *)
(*                                                                         *)
(* The ledger lives in PostgreSQL.  Every handler opens its own connection *)
(* through get_db(), runs its SQL statements one by one and commits when   *)
(* the with-block ends.  The model keeps the committed tables, and for     *)
(* every handler instance the rows it has written and not yet committed    *)
(* (these rows are row-locked: a statement of another transaction that     *)
(* wants to write one of them waits, and re-evaluates its WHERE clause on  *)
(* the committed row afterwards: READ COMMITTED).                          *)
(*                                                                         *)
(* Decimal values are integers counting 0.0001 rupee.                      *)
(***************************************************************************)
EXTENDS Integers, Sequences, FiniteSets, TLC

\* ------------------------------------------------------------------ bounds
NumProcs == 2          \* handler instances that may run at the same time
MaxPending == 2        \* pending submissions in the review queue at the start
MaxTime == 1           \* clock ticks
MaxRequests == 2       \* withdrawal requests that reach their INSERT
MaxDay == 1            \* midnights that pass
MaxSubmissions == 2    \* gmail ids handed out by the submission conversation
MaxCooldowns == 1      \* submission cooldowns that elapse
MaxApproved == 101      \* approved submissions a seeded user has
FeeSpan == 150         \* thousandths of a rupee above each base amount typed

\* --------------------------------------------------------------- constants
Cent == 100                      \* Decimal('0.01') in units of 0.0001
Rupee == 100 * Cent
WITHDRAWAL_FEE_PERCENT == 5
WITHDRAWAL_FEE_MIN == 5
MAX_WITHDRAWALS_PER_DAY == 3
MAX_PENDING_WITHDRAWALS == 2
MIN_WITHDRAWAL == 100
SUBMIT_COOLDOWN == 20
EMAIL_MAX_LEN == 100
REFERRAL_REWARD == 5
CHANNEL_BONUS == 1
ADMIN_ID == 9
BASE_RATE == 20
MID_RATE == 25
TOP_RATE == 30
MID_THRESHOLD == 50
TOP_THRESHOLD == 100

Procs == 1..NumProcs
UserIds == {1, 2}
NoId == 0                        \* None / NULL for an id
NoTime == -1                     \* NULL for a timestamp
NoText == "NULL"                 \* NULL for a text column

\* ----------------------------------------------------------------- helpers
Max(a, b) == IF a >= b THEN a ELSE b

EmptyFn == [x \in {} |-> x]

\* f overridden by g
Merge(f, g) == [x \in (DOMAIN f) \cup (DOMAIN g) |-> IF x \in DOMAIN g THEN g[x] ELSE f[x]]

RECURSIVE SumOver(_, _)
SumOver(S, f) == IF S = {} THEN 0
                 ELSE LET x == CHOOSE y \in S : TRUE IN f[x] + SumOver(S \ {x}, f)

\* a quantize that drops the digits after the second decimal
RoundDecimalTrunc(v) == (v \div Cent) * Cent

\* round_decimal: quantize(Decimal('0.01'), ROUND_HALF_UP), ties go away from zero
RoundDecimal(v) == IF v >= 0 THEN ((v + (Cent \div 2)) \div Cent) * Cent
                   ELSE 0 - ((((0 - v) + (Cent \div 2)) \div Cent) * Cent)

\* a value stored into a DECIMAL(10,2) column (PostgreSQL rounds numeric
\* ties away from zero)
Numeric2(v) == IF v >= 0 THEN ((v + (Cent \div 2)) \div Cent) * Cent
               ELSE 0 - ((((0 - v) + (Cent \div 2)) \div Cent) * Cent)

\* ------------------------------------------------------------------- state
VARIABLES users,        \* committed table users:       user_id -> row
          gmail,        \* committed table gmail:       id -> row
          withdrawals,  \* committed table withdrawals: id -> row
          referrals,    \* committed table referrals:   referred_id -> row
          wd_seq,       \* withdrawals_id_seq (sequences are not transactional)
          gm_seq,       \* gmail_id_seq
          tx,           \* per handler: rows written and not yet committed
          pc,           \* per handler: the statement it is about to run
          loc,          \* per handler: its local variables
          resp,         \* the last answer a handler gave
          hist,         \* how often each paying statement was committed
          conv,         \* per user: ConversationHandler state
          user_data,    \* per user: context.user_data
          now,          \* wall clock
          audit_log,    \* committed table audit_log, as the set of its entries
          notices,      \* the messages handed to bot.send_message, delivered or not
          store_up,     \* psycopg2.connect succeeds for a new connection
          blocked_bot,  \* the chats bot.send_message cannot reach (Forbidden)
          queue_card    \* the withdrawal whose Approve and Reject buttons the admin's
                        \* queue message shows, 0 when it shows none

dbvars == <<users, gmail, withdrawals, referrals>>
envvars == <<audit_log, notices, store_up, blocked_bot, queue_card>>
vars == <<users, gmail, withdrawals, referrals, wd_seq, gm_seq, tx, pc, loc, resp,
          hist, conv, user_data, now, audit_log, notices, store_up, blocked_bot, queue_card>>

\* hist counts, per submission, the committed single approvals (answered
\* "Approved!"), per user the committed batch approvals, per referred user
\* the committed credits of the referral reward to the referrer, and the
\* INSERTs the submission conversation has run
Hist0 == [approved |-> [g \in 1..(MID_THRESHOLD + MaxSubmissions) |-> 0],
          batch_approved |-> [u \in UserIds |-> 0],
          ref_credited |-> [u \in UserIds |-> 0],
          submitted |-> 0,
          requested |-> 0]

UserRow(ref) == [balance |-> 0, total_gmail |-> 0, approved_gmail |-> 0,
                 is_blocked |-> 0, referrer_id |-> ref, usdt_address |-> NoText,
                 upi_id |-> NoText, channel_claimed |-> 0,
                 last_submit_time |-> NoTime, notifications_enabled |-> 1]

GmailRow(uid, email, reward, t) ==
    [user_id |-> uid, email |-> email, status |-> "pending", reward |-> reward,
     submit_date |-> t, review_date |-> NoTime, rejection_reason |-> NoText]

ReferralRow(referrer) == [referrer_id |-> referrer, reward |-> REFERRAL_REWARD * Rupee,
                          rewarded |-> 0]

EmptyTx == [users |-> EmptyFn, gmail |-> EmptyFn, withdrawals |-> EmptyFn,
            referrals |-> EmptyFn]

Loc0 == [gid |-> NoId, uid |-> NoId, reward |-> 0, is_first_approval |-> FALSE,
         gmails |-> {}, total_reward |-> 0, count |-> 0,
         referrer_id |-> NoId, ref_reward |-> 0,
         wid |-> NoId, amount |-> 0, fee |-> 0, final_amount |-> 0,
         method |-> NoText, payment_info |-> NoText, email |-> <<>>]

\* ------------------------------------------------- transactions (get_db)
\* what a statement of handler p reads: committed rows and p's own writes
ViewUsers(p) == Merge(users, tx[p].users)
ViewGmail(p) == Merge(gmail, tx[p].gmail)
ViewWithdrawals(p) == Merge(withdrawals, tx[p].withdrawals)
ViewReferrals(p) == Merge(referrals, tx[p].referrals)

\* a row written by another open transaction is locked
LockedUser(p, u) == \E q \in Procs \ {p} : u \in DOMAIN tx[q].users
LockedGmail(p, g) == \E q \in Procs \ {p} : g \in DOMAIN tx[q].gmail
LockedWithdrawal(p, w) == \E q \in Procs \ {p} : w \in DOMAIN tx[q].withdrawals
LockedReferral(p, r) == \E q \in Procs \ {p} : r \in DOMAIN tx[q].referrals

\* conn.commit(): the writes of p become the committed rows
Commit(p) ==
    /\ users' = Merge(users, tx[p].users)
    /\ gmail' = Merge(gmail, tx[p].gmail)
    /\ withdrawals' = Merge(withdrawals, tx[p].withdrawals)
    /\ referrals' = Merge(referrals, tx[p].referrals)
    /\ tx' = [tx EXCEPT ![p] = EmptyTx]

\* the handler returns: back to idle with fresh locals
Finish(p, answer) ==
    /\ pc' = [pc EXCEPT ![p] = "idle"]
    /\ loc' = [loc EXCEPT ![p] = Loc0]
    /\ resp' = answer

Goto(p, label) == pc' = [pc EXCEPT ![p] = label]

\* a get_db that commits what was written when a statement raises
TxFailKeepsWrites(p) ==
    /\ pc[p] # "idle"
    /\ Commit(p)
    /\ Finish(p, "error")
    /\ UNCHANGED <<wd_seq, gm_seq, hist, conv, user_data, now, envvars>>

\* a statement raises (store unavailable): get_db rolls back and re-raises,
\* the handler answers "Error occurred!"
TxFail(p) ==
    /\ pc[p] # "idle"
    /\ tx' = [tx EXCEPT ![p] = EmptyTx]
    /\ Finish(p, "error")
    /\ UNCHANGED <<dbvars, wd_seq, gm_seq, hist, conv, user_data, now, envvars>>

\* the clock advances
Tick ==
    /\ now < MaxTime
    /\ now' = now + 1
    /\ UNCHANGED <<dbvars, wd_seq, gm_seq, tx, pc, loc, resp, hist, conv, user_data, envvars>>

\* ------------------------------------------------------- callback gate
\* is_blocked
is_blocked(uid) == uid \in DOMAIN users /\ users[uid].is_blocked = 1

\* callback: a blocked user other than the admin gets "Blocked!" and nothing else
CallbackGate(actor) == ~(is_blocked(actor) /\ actor # ADMIN_ID)

\* the conversation that takes a text message or /cancel of user u: the first
\* of the handlers, in the order main registers them, in which u has a state
TextGoesTo(u) ==
    IF conv[u].gmail # "END" THEN "gmail"
    ELSE IF conv[u].withdraw # "END" THEN "withdraw"
    ELSE IF conv[u].usdt # "END" THEN "usdt"
    ELSE IF conv[u].upi # "END" THEN "upi"
    ELSE "none"

\* ------------------------------------------------ audit log and notifications
\* log_audit: one INSERT on a connection of its own; an exception is logged
\* and swallowed. The value is the audit_log table afterwards.
LogAudit(action, target_user_id, details) ==
    IF store_up
    THEN audit_log \cup {[action |-> action, target_user_id |-> target_user_id,
                          details |-> details]}
    ELSE audit_log

\* notifications_enabled: a read on a connection of its own; True when the
\* user has no row or the read raises
notifications_enabled(user_id) ==
    IF store_up /\ user_id \in DOMAIN users
    THEN users[user_id].notifications_enabled = 1
    ELSE TRUE

\* context.bot.send_message inside try/except: the message is handed to
\* Telegram and is delivered or not; the exception is swallowed. The value is
\* the set of notices afterwards.
SendMessage(to, kind, ref) ==
    notices \cup {[to |-> to, kind |-> kind, ref |-> ref, delivered |-> to \notin blocked_bot]}

\* notify_user: nothing is sent when the user has disabled notifications
NotifyUser(to, kind, ref) ==
    IF notifications_enabled(to) THEN SendMessage(to, kind, ref) ELSE notices

\* ------------------------------------------- helpers of the review handlers
ApprovedCount(rows, uid) ==
    Cardinality({g \in DOMAIN rows : rows[g].user_id = uid /\ rows[g].status = "approved"})

PendingOf(rows, uid) ==
    {g \in DOMAIN rows : rows[g].user_id = uid /\ rows[g].status = "pending"}

\* UPDATE users SET balance=balance+amt, approved_gmail=approved_gmail+n WHERE user_id=uid
CreditUser(p, uid, amt, n) ==
    IF uid \in DOMAIN users
    THEN LET row == ViewUsers(p)[uid] IN
         tx' = [tx EXCEPT ![p].users = Merge(@, [u \in {uid} |->
                   [row EXCEPT !.balance = Numeric2(row.balance + amt),
                               !.approved_gmail = row.approved_gmail + n]])]
    ELSE UNCHANGED tx

\* the referral credits committed so far, after handler p commits: p ran the
\* credit of the referrer exactly when its referral UPDATE returned a row
RefCredited(p) ==
    IF loc[p].referrer_id # NoId
    THEN [hist.ref_credited EXCEPT ![loc[p].uid] = @ + 1]
    ELSE hist.ref_credited

\* the callback data of the buttons the review page renders for submission g:
\* approve_{gid}_{uid}_{page} with uid the user whose pending rows are listed
ButtonUid(g) == gmail[g].user_id

\* ------------------------------------------------ approve_<gid>_<uid>_<page>
\* the single approval without its status='pending' predicate
ApproveUpdateNoGuard(p, gid, uid) ==
    /\ pc[p] = "idle"
    /\ gid \in DOMAIN gmail
    /\ ~LockedGmail(p, gid)
    /\ tx' = [tx EXCEPT ![p].gmail = Merge(@, [g \in {gid} |->
                   [gmail[gid] EXCEPT !.status = "approved", !.review_date = now]])]
    /\ loc' = [loc EXCEPT ![p] = [Loc0 EXCEPT !.gid = gid,
                   !.uid = IF uid # NoId THEN uid ELSE gmail[gid].user_id,
                   !.reward = RoundDecimal(gmail[gid].reward)]]
    /\ Goto(p, "approve_count")
    /\ UNCHANGED <<dbvars, wd_seq, gm_seq, resp, hist, conv, user_data, now, envvars>>

\* UPDATE gmail SET status='approved' WHERE id=gid AND status='pending' RETURNING ...
ApproveUpdate(p, gid, uid) ==
    /\ pc[p] = "idle"
    /\ gid \in DOMAIN gmail
    /\ ~LockedGmail(p, gid)
    /\ IF gmail[gid].status = "pending"
       THEN /\ tx' = [tx EXCEPT ![p].gmail = Merge(@, [g \in {gid} |->
                         [gmail[gid] EXCEPT !.status = "approved", !.review_date = now]])]
            /\ loc' = [loc EXCEPT ![p] = [Loc0 EXCEPT !.gid = gid,
                         !.uid = IF uid # NoId THEN uid ELSE gmail[gid].user_id,
                         !.reward = RoundDecimal(gmail[gid].reward)]]
            /\ Goto(p, "approve_count")
            /\ UNCHANGED resp
       ELSE /\ Finish(p, "approve:already_processed")
            /\ UNCHANGED tx
    /\ UNCHANGED <<dbvars, wd_seq, gm_seq, hist, conv, user_data, now, envvars>>

\* SELECT COUNT(*) FROM gmail WHERE user_id=uid AND status='approved'
ApproveCount(p) ==
    /\ pc[p] = "approve_count"
    /\ loc' = [loc EXCEPT ![p].is_first_approval =
                   (ApprovedCount(ViewGmail(p), loc[p].uid) = 1)]
    /\ Goto(p, "approve_credit")
    /\ UNCHANGED <<dbvars, wd_seq, gm_seq, tx, resp, hist, conv, user_data, now, envvars>>

\* the credit of the owner's rate at approval instead of the stored reward
ApproveCreditAtRate(p) ==
    /\ pc[p] = "approve_credit"
    /\ ~LockedUser(p, loc[p].uid)
    /\ CreditUser(p, loc[p].uid,
                  (IF ViewUsers(p)[loc[p].uid].approved_gmail >= TOP_THRESHOLD THEN TOP_RATE
                   ELSE IF ViewUsers(p)[loc[p].uid].approved_gmail >= MID_THRESHOLD THEN MID_RATE
                   ELSE BASE_RATE) * Rupee, 1)
    /\ Goto(p, IF loc[p].is_first_approval THEN "approve_referral" ELSE "approve_commit")
    /\ UNCHANGED <<dbvars, wd_seq, gm_seq, loc, resp, hist, conv, user_data, now, envvars>>

\* UPDATE users SET balance=balance+reward, approved_gmail=approved_gmail+1
ApproveCredit(p) ==
    /\ pc[p] = "approve_credit"
    /\ ~LockedUser(p, loc[p].uid)
    /\ CreditUser(p, loc[p].uid, loc[p].reward, 1)
    /\ Goto(p, IF loc[p].is_first_approval THEN "approve_referral" ELSE "approve_commit")
    /\ UNCHANGED <<dbvars, wd_seq, gm_seq, loc, resp, hist, conv, user_data, now, envvars>>

\* the referral UPDATE without its rewarded=0 predicate
ReferralUpdateNoGuard(p, next, skip) ==
    /\ ~LockedReferral(p, loc[p].uid)
    /\ IF loc[p].uid \in DOMAIN referrals
       THEN LET row == ViewReferrals(p)[loc[p].uid] IN
            /\ tx' = [tx EXCEPT ![p].referrals = Merge(@, [r \in {loc[p].uid} |->
                          [row EXCEPT !.rewarded = 1]])]
            /\ loc' = [loc EXCEPT ![p].referrer_id = row.referrer_id,
                                  ![p].ref_reward = RoundDecimal(row.reward)]
            /\ Goto(p, next)
       ELSE /\ Goto(p, skip)
            /\ UNCHANGED <<tx, loc>>

\* UPDATE referrals SET rewarded=1 WHERE referred_id=uid AND rewarded=0 RETURNING ...
ReferralUpdate(p, next, skip) ==
    /\ ~LockedReferral(p, loc[p].uid)
    /\ IF /\ loc[p].uid \in DOMAIN referrals
          /\ ViewReferrals(p)[loc[p].uid].rewarded = 0
       THEN LET row == ViewReferrals(p)[loc[p].uid] IN
            /\ tx' = [tx EXCEPT ![p].referrals = Merge(@, [r \in {loc[p].uid} |->
                          [row EXCEPT !.rewarded = 1]])]
            /\ loc' = [loc EXCEPT ![p].referrer_id = row.referrer_id,
                                  ![p].ref_reward = RoundDecimal(row.reward)]
            /\ Goto(p, next)
       ELSE /\ Goto(p, skip)
            /\ UNCHANGED <<tx, loc>>

ApproveReferral(p) ==
    /\ pc[p] = "approve_referral"
    /\ ReferralUpdate(p, "approve_refcredit", "approve_commit")
    /\ UNCHANGED <<dbvars, wd_seq, gm_seq, resp, hist, conv, user_data, now, envvars>>

\* the referrer's credit with a notify_user that lets the exception of
\* send_message escape: get_db rolls back, "Error occurred!"
ApproveRefCreditNotifyRaises(p) ==
    /\ pc[p] = "approve_refcredit"
    /\ ~LockedUser(p, loc[p].referrer_id)
    /\ notices' = NotifyUser(loc[p].referrer_id, "referral_reward", loc[p].uid)
    /\ IF loc[p].referrer_id \in blocked_bot
       THEN /\ tx' = [tx EXCEPT ![p] = EmptyTx]
            /\ Finish(p, "error")
       ELSE /\ CreditUser(p, loc[p].referrer_id, loc[p].ref_reward, 0)
            /\ Goto(p, "approve_commit")
            /\ UNCHANGED <<loc, resp>>
    /\ UNCHANGED <<dbvars, wd_seq, gm_seq, hist, conv, user_data, now, audit_log, store_up, queue_card,
                   blocked_bot>>

\* UPDATE users SET balance=balance+ref_reward WHERE user_id=referrer_id;
\* notify_user(referrer_id, "Referral Reward!")
ApproveRefCredit(p) ==
    /\ pc[p] = "approve_refcredit"
    /\ ~LockedUser(p, loc[p].referrer_id)
    /\ CreditUser(p, loc[p].referrer_id, loc[p].ref_reward, 0)
    /\ Goto(p, "approve_commit")
    /\ notices' = NotifyUser(loc[p].referrer_id, "referral_reward", loc[p].uid)
    /\ UNCHANGED <<dbvars, wd_seq, gm_seq, loc, resp, hist, conv, user_data, now, audit_log, store_up, queue_card, blocked_bot>>

\* conn.commit(), then "Approved! ... credited"
ApproveCommit(p) ==
    /\ pc[p] = "approve_commit"
    /\ Commit(p)
    /\ hist' = [hist EXCEPT !.approved[loc[p].gid] = @ + 1,
                          !.ref_credited = RefCredited(p)]
    /\ Finish(p, "approve:approved")
    /\ audit_log' = LogAudit("approve_gmail", loc[p].uid, loc[p].gid)
    /\ notices' = NotifyUser(loc[p].uid, "gmail_verified", loc[p].gid)
    /\ UNCHANGED <<wd_seq, gm_seq, conv, user_data, now, store_up, queue_card, blocked_bot>>

\* --------------------------------------------------- reject_<gid>_<uid>_<page>
\* the single rejection without its status='pending' predicate
RejectUpdateNoGuard(p, gid, uid) ==
    /\ pc[p] = "idle"
    /\ gid \in DOMAIN gmail
    /\ ~LockedGmail(p, gid)
    /\ tx' = [tx EXCEPT ![p].gmail = Merge(@, [g \in {gid} |->
                   [gmail[gid] EXCEPT !.status = "rejected", !.review_date = now,
                                      !.rejection_reason = "Invalid/duplicate account"]])]
    /\ loc' = [loc EXCEPT ![p] = [Loc0 EXCEPT !.gid = gid,
                   !.uid = IF uid # NoId THEN uid ELSE gmail[gid].user_id]]
    /\ Goto(p, "reject_commit")
    /\ UNCHANGED <<dbvars, wd_seq, gm_seq, resp, hist, conv, user_data, now, envvars>>

\* UPDATE gmail SET status='rejected' WHERE id=gid AND status='pending' RETURNING ...
RejectUpdate(p, gid, uid) ==
    /\ pc[p] = "idle"
    /\ gid \in DOMAIN gmail
    /\ ~LockedGmail(p, gid)
    /\ IF gmail[gid].status = "pending"
       THEN /\ tx' = [tx EXCEPT ![p].gmail = Merge(@, [g \in {gid} |->
                         [gmail[gid] EXCEPT !.status = "rejected", !.review_date = now,
                                            !.rejection_reason = "Invalid/duplicate account"]])]
            /\ loc' = [loc EXCEPT ![p] = [Loc0 EXCEPT !.gid = gid,
                         !.uid = IF uid # NoId THEN uid ELSE gmail[gid].user_id]]
            /\ Goto(p, "reject_commit")
            /\ UNCHANGED resp
       ELSE /\ Finish(p, "reject:already_processed")
            /\ UNCHANGED tx
    /\ UNCHANGED <<dbvars, wd_seq, gm_seq, hist, conv, user_data, now, envvars>>

RejectCommit(p) ==
    /\ pc[p] = "reject_commit"
    /\ Commit(p)
    /\ Finish(p, "reject:rejected")
    /\ audit_log' = LogAudit("reject_gmail", loc[p].uid, loc[p].gid)
    /\ notices' = NotifyUser(loc[p].uid, "gmail_rejected", loc[p].gid)
    /\ UNCHANGED <<wd_seq, gm_seq, hist, conv, user_data, now, store_up, queue_card, blocked_bot>>

\* ------------------------------------------------------- approve_all_<uid>
\* SELECT id, reward, email FROM gmail WHERE user_id=uid AND status='pending'
ApproveAllSelect(p, uid) ==
    /\ pc[p] = "idle"
    /\ LET rows == PendingOf(gmail, uid) IN
       IF rows = {}
       THEN /\ Finish(p, "approve_all:none_pending")
       ELSE /\ loc' = [loc EXCEPT ![p] = [Loc0 EXCEPT !.uid = uid, !.gmails = rows,
                         !.total_reward = SumOver(rows, [g \in rows |-> RoundDecimal(gmail[g].reward)]),
                         !.count = Cardinality(rows)]]
            /\ Goto(p, "approve_all_count")
            /\ UNCHANGED resp
    /\ UNCHANGED <<dbvars, wd_seq, gm_seq, tx, hist, conv, user_data, now, envvars>>

\* the first-approval test of approve_<gid> (count = 1) used before the batch UPDATE
ApproveAllCountAfter(p) ==
    /\ pc[p] = "approve_all_count"
    /\ loc' = [loc EXCEPT ![p].is_first_approval =
                   (ApprovedCount(ViewGmail(p), loc[p].uid) = 1)]
    /\ Goto(p, "approve_all_update")
    /\ UNCHANGED <<dbvars, wd_seq, gm_seq, tx, resp, hist, conv, user_data, now, envvars>>

\* SELECT COUNT(*) FROM gmail WHERE user_id=uid AND status='approved'
ApproveAllCount(p) ==
    /\ pc[p] = "approve_all_count"
    /\ loc' = [loc EXCEPT ![p].is_first_approval =
                   (ApprovedCount(ViewGmail(p), loc[p].uid) = 0)]
    /\ Goto(p, "approve_all_update")
    /\ UNCHANGED <<dbvars, wd_seq, gm_seq, tx, resp, hist, conv, user_data, now, envvars>>

\* the batch UPDATE without its status='pending' predicate
BatchUpdateNoGuard(p, status, reason) ==
    LET rows == {g \in DOMAIN gmail : gmail[g].user_id = loc[p].uid} IN
    /\ \A g \in rows : ~LockedGmail(p, g)
    /\ tx' = [tx EXCEPT ![p].gmail = Merge(@, [g \in rows |->
                  [gmail[g] EXCEPT !.status = status, !.review_date = now,
                                   !.rejection_reason = reason]])]

\* UPDATE gmail SET status=..., review_date=... WHERE user_id=uid AND status='pending'
BatchUpdate(p, status, reason) ==
    LET rows == PendingOf(gmail, loc[p].uid) IN
    /\ \A g \in rows : ~LockedGmail(p, g)
    /\ tx' = [tx EXCEPT ![p].gmail = Merge(@, [g \in rows |->
                  [gmail[g] EXCEPT !.status = status, !.review_date = now,
                                   !.rejection_reason = reason]])]

ApproveAllUpdate(p) ==
    /\ pc[p] = "approve_all_update"
    /\ BatchUpdate(p, "approved", NoText)
    /\ Goto(p, "approve_all_credit")
    /\ UNCHANGED <<dbvars, wd_seq, gm_seq, loc, resp, hist, conv, user_data, now, envvars>>

\* UPDATE users SET balance=balance+total_reward, approved_gmail=approved_gmail+count
ApproveAllCredit(p) ==
    /\ pc[p] = "approve_all_credit"
    /\ ~LockedUser(p, loc[p].uid)
    /\ CreditUser(p, loc[p].uid, loc[p].total_reward, loc[p].count)
    /\ Goto(p, IF loc[p].is_first_approval THEN "approve_all_referral"
                                            ELSE "approve_all_commit")
    /\ UNCHANGED <<dbvars, wd_seq, gm_seq, loc, resp, hist, conv, user_data, now, envvars>>

ApproveAllReferral(p) ==
    /\ pc[p] = "approve_all_referral"
    /\ ReferralUpdate(p, "approve_all_refcredit", "approve_all_commit")
    /\ UNCHANGED <<dbvars, wd_seq, gm_seq, resp, hist, conv, user_data, now, envvars>>

ApproveAllRefCredit(p) ==
    /\ pc[p] = "approve_all_refcredit"
    /\ ~LockedUser(p, loc[p].referrer_id)
    /\ CreditUser(p, loc[p].referrer_id, loc[p].ref_reward, 0)
    /\ Goto(p, "approve_all_commit")
    /\ notices' = NotifyUser(loc[p].referrer_id, "referral_reward", loc[p].uid)
    /\ UNCHANGED <<dbvars, wd_seq, gm_seq, loc, resp, hist, conv, user_data, now, audit_log, store_up, queue_card, blocked_bot>>

ApproveAllCommit(p) ==
    /\ pc[p] = "approve_all_commit"
    /\ Commit(p)
    /\ hist' = [hist EXCEPT !.batch_approved[loc[p].uid] = @ + 1,
                          !.ref_credited = RefCredited(p)]
    /\ Finish(p, "approve_all:approved")
    /\ audit_log' = LogAudit("approve_all_gmail", loc[p].uid, loc[p].count)
    /\ notices' = NotifyUser(loc[p].uid, "all_gmail_verified", loc[p].count)
    /\ UNCHANGED <<wd_seq, gm_seq, conv, user_data, now, store_up, queue_card, blocked_bot>>

\* -------------------------------------------------------- reject_all_<uid>
\* SELECT COUNT(*) FROM gmail WHERE user_id=uid AND status='pending'
RejectAllCount(p, uid) ==
    /\ pc[p] = "idle"
    /\ IF PendingOf(gmail, uid) = {}
       THEN /\ Finish(p, "reject_all:none_pending")
       ELSE /\ loc' = [loc EXCEPT ![p] = [Loc0 EXCEPT !.uid = uid,
                         !.count = Cardinality(PendingOf(gmail, uid))]]
            /\ Goto(p, "reject_all_update")
            /\ UNCHANGED resp
    /\ UNCHANGED <<dbvars, wd_seq, gm_seq, tx, hist, conv, user_data, now, envvars>>

RejectAllUpdate(p) ==
    /\ pc[p] = "reject_all_update"
    /\ BatchUpdate(p, "rejected", "Quality issues")
    /\ Goto(p, "reject_all_commit")
    /\ UNCHANGED <<dbvars, wd_seq, gm_seq, loc, resp, hist, conv, user_data, now, envvars>>

RejectAllCommit(p) ==
    /\ pc[p] = "reject_all_commit"
    /\ Commit(p)
    /\ Finish(p, "reject_all:rejected")
    /\ audit_log' = LogAudit("reject_all_gmail", loc[p].uid, loc[p].count)
    /\ notices' = NotifyUser(loc[p].uid, "all_gmail_rejected", loc[p].count)
    /\ UNCHANGED <<wd_seq, gm_seq, hist, conv, user_data, now, store_up, queue_card, blocked_bot>>

\* ------------------------------------------------- the review specification
\* The review queue as the submission flow leaves it: user 1 exists, user 2
\* joined (through user 1's link or not), and between them they have submitted
\* 1..MaxPending addresses, all still pending, each at the base rate.
SeedEmail(i) == <<"s", ToString(i), "@", "gmail.com">>

\* no conversation of gmail_conv, withdraw_conv, usdt_conv, upi_conv is open
ConvEnd == [gmail |-> "END", withdraw |-> "END", usdt |-> "END", upi |-> "END"]

IdleProcs ==
    /\ tx = [p \in Procs |-> EmptyTx]
    /\ pc = [p \in Procs |-> "idle"]
    /\ loc = [p \in Procs |-> Loc0]
    /\ resp = "none"
    /\ conv = [u \in UserIds |-> ConvEnd]
    /\ user_data = [u \in UserIds |-> [email |-> <<>>, withdraw_method |-> NoText]]
    /\ audit_log = {}
    /\ notices = {}
    /\ store_up = TRUE
    /\ blocked_bot = {}
    /\ queue_card = 0

InitReview ==
    /\ \E n \in 1..MaxPending : \E owner \in [1..n -> UserIds] : \E referred \in BOOLEAN :
         /\ gmail = [g \in 1..n |-> GmailRow(owner[g], SeedEmail(g), BASE_RATE * Rupee, 0)]
         /\ users = [u \in UserIds |->
                       [UserRow(IF u = 2 /\ referred THEN 1 ELSE NoId) EXCEPT
                          !.total_gmail = Cardinality({g \in 1..n : owner[g] = u})]]
         /\ referrals = IF referred THEN [r \in {2} |-> ReferralRow(1)] ELSE EmptyFn
         /\ gm_seq = n
         /\ hist = Hist0
    /\ withdrawals = EmptyFn
    /\ wd_seq = 0
    /\ now = 0
    /\ IdleProcs

NextReview ==
    \/ \E p \in Procs : \E g \in DOMAIN gmail : ApproveUpdate(p, g, ButtonUid(g))
    \/ \E p \in Procs : ApproveCount(p)
    \/ \E p \in Procs : ApproveCredit(p)
    \/ \E p \in Procs : ApproveReferral(p)
    \/ \E p \in Procs : ApproveRefCredit(p)
    \/ \E p \in Procs : ApproveCommit(p)
    \/ \E p \in Procs : \E g \in DOMAIN gmail : RejectUpdate(p, g, ButtonUid(g))
    \/ \E p \in Procs : RejectCommit(p)
    \/ \E p \in Procs : \E u \in UserIds : ApproveAllSelect(p, u)
    \/ \E p \in Procs : ApproveAllCount(p)
    \/ \E p \in Procs : ApproveAllUpdate(p)
    \/ \E p \in Procs : ApproveAllCredit(p)
    \/ \E p \in Procs : ApproveAllReferral(p)
    \/ \E p \in Procs : ApproveAllRefCredit(p)
    \/ \E p \in Procs : ApproveAllCommit(p)
    \/ \E p \in Procs : \E u \in UserIds : RejectAllCount(p, u)
    \/ \E p \in Procs : RejectAllUpdate(p)
    \/ \E p \in Procs : RejectAllCommit(p)
    \/ \E p \in Procs : TxFail(p)
    \/ Tick

SpecReview == InitReview /\ [][NextReview]_vars

\* ------------------------------------------------------- fee calculator
\* calculate_withdrawal_fee: the fee
CalcFeeTruncated(amount) ==
    RoundDecimalTrunc(Max((RoundDecimal(amount) * WITHDRAWAL_FEE_PERCENT) \div 100,
                          WITHDRAWAL_FEE_MIN * Rupee))

CalcFee(amount) ==
    RoundDecimal(Max((RoundDecimal(amount) * WITHDRAWAL_FEE_PERCENT) \div 100,
                     WITHDRAWAL_FEE_MIN * Rupee))

\* the net amount taken from the fee before it is rounded
CalcFinalDrift(amount) ==
    RoundDecimal(RoundDecimal(amount)
                 - Max((RoundDecimal(amount) * WITHDRAWAL_FEE_PERCENT) \div 100,
                       WITHDRAWAL_FEE_MIN * Rupee))

\* calculate_withdrawal_fee: the final amount
CalcFinal(amount) == RoundDecimal(RoundDecimal(amount) - CalcFee(amount))

\* ------------------------------------------------------ withdrawal request
SecondsPerDay == 86400
Date(t) == t \div SecondsPerDay

WdLabels == {"wd_select", "wd_debit", "wd_insert", "wd_commit"}

WithdrawalRow(uid, amount, fee, final, method, info, t) ==
    [user_id |-> uid, amount |-> Numeric2(amount), fee |-> Numeric2(fee),
     final_amount |-> Numeric2(final), method |-> method, payment_info |-> info,
     status |-> "pending", request_date |-> t, processed_date |-> NoTime,
     rejection_reason |-> NoText]

\* can_withdraw_today
CanWithdrawToday(uid) ==
    Cardinality({w \in DOMAIN withdrawals :
                    /\ withdrawals[w].user_id = uid
                    /\ Date(withdrawals[w].request_date) = Date(now)
                    /\ withdrawals[w].status \in {"pending", "approved"}})
        < MAX_WITHDRAWALS_PER_DAY

\* callback withdraw_upi / withdraw_usdt: the entry point of withdraw_conv
WithdrawMethod(u, m) ==
    /\ u \in DOMAIN users
    /\ CallbackGate(u)
    /\ IF (IF m = "upi" THEN users[u].upi_id ELSE users[u].usdt_address) = NoText
       THEN /\ resp' = "withdraw_method:setup_first"
            /\ UNCHANGED <<conv, user_data>>
       ELSE /\ user_data' = [user_data EXCEPT ![u].withdraw_method = m]
            /\ conv' = [conv EXCEPT ![u].withdraw = "WITHDRAW_AMT"]
            /\ UNCHANGED resp
    /\ UNCHANGED <<dbvars, wd_seq, gm_seq, tx, pc, loc, hist, now, envvars>>

\* receive_withdraw_amt up to the withdrawal transaction: the minimum, the
\* daily cap, the method and the fee
ReceiveWithdrawAmt(p, u, amount) ==
    /\ pc[p] = "idle"
    /\ TextGoesTo(u) = "withdraw"
    /\ conv[u].withdraw = "WITHDRAW_AMT"
    /\ hist.requested + Cardinality({q \in Procs : pc[q] \in WdLabels}) < MaxRequests
    /\ IF amount < MIN_WITHDRAWAL * Rupee
       THEN /\ Finish(p, "withdraw:below_minimum")
            /\ UNCHANGED conv
       ELSE IF ~CanWithdrawToday(u)
       THEN /\ Finish(p, "withdraw:daily_limit")
            /\ conv' = [conv EXCEPT ![u].withdraw = "END"]
       ELSE /\ loc' = [loc EXCEPT ![p] = [Loc0 EXCEPT !.uid = u, !.amount = amount,
                         !.method = user_data[u].withdraw_method,
                         !.fee = CalcFee(amount), !.final_amount = CalcFinal(amount)]]
            /\ Goto(p, "wd_select")
            /\ UNCHANGED <<resp, conv>>
    /\ UNCHANGED <<dbvars, wd_seq, gm_seq, tx, hist, user_data, now, envvars>>

\* SELECT balance, usdt_address, upi_id FROM users; if amount > balance: ...
WdSelect(p) ==
    /\ pc[p] = "wd_select"
    /\ LET u == loc[p].uid IN
       IF u \notin DOMAIN users
       THEN /\ Finish(p, "withdraw:error")
            /\ conv' = [conv EXCEPT ![u].withdraw = "END"]
       ELSE IF loc[p].amount > RoundDecimal(users[u].balance)
       THEN /\ Finish(p, "withdraw:insufficient_balance")
            /\ UNCHANGED conv
       ELSE /\ loc' = [loc EXCEPT ![p].payment_info =
                          IF loc[p].method = "upi" THEN users[u].upi_id
                                                   ELSE users[u].usdt_address]
            /\ Goto(p, "wd_debit")
            /\ UNCHANGED <<resp, conv>>
    /\ UNCHANGED <<dbvars, wd_seq, gm_seq, tx, hist, user_data, now, envvars>>

\* the deduction without its balance >= amount predicate
WdDebitNoGuard(p) ==
    /\ pc[p] = "wd_debit"
    /\ ~LockedUser(p, loc[p].uid)
    /\ LET u == loc[p].uid IN
       /\ tx' = [tx EXCEPT ![p].users = Merge(@, [x \in {u} |->
                     [users[u] EXCEPT !.balance = Numeric2(users[u].balance - loc[p].amount)]])]
       /\ Goto(p, "wd_insert")
       /\ UNCHANGED <<loc, resp, conv>>
    /\ UNCHANGED <<dbvars, wd_seq, gm_seq, hist, user_data, now, envvars>>

\* UPDATE users SET balance=balance-amount WHERE user_id=u AND balance >= amount RETURNING balance
WdDebit(p) ==
    /\ pc[p] = "wd_debit"
    /\ ~LockedUser(p, loc[p].uid)
    /\ LET u == loc[p].uid IN
       IF users[u].balance >= loc[p].amount
       THEN /\ tx' = [tx EXCEPT ![p].users = Merge(@, [x \in {u} |->
                         [users[u] EXCEPT !.balance = Numeric2(users[u].balance - loc[p].amount)]])]
            /\ Goto(p, "wd_insert")
            /\ UNCHANGED <<loc, resp, conv>>
       ELSE /\ Finish(p, "withdraw:balance_changed")
            /\ conv' = [conv EXCEPT ![u].withdraw = "END"]
            /\ UNCHANGED tx
    /\ UNCHANGED <<dbvars, wd_seq, gm_seq, hist, user_data, now, envvars>>

\* INSERT INTO withdrawals (...) VALUES (...) RETURNING id
WdInsert(p) ==
    /\ pc[p] = "wd_insert"
    /\ wd_seq' = wd_seq + 1
    /\ tx' = [tx EXCEPT ![p].withdrawals = Merge(@, [w \in {wd_seq + 1} |->
                  WithdrawalRow(loc[p].uid, loc[p].amount, loc[p].fee, loc[p].final_amount,
                                loc[p].method, loc[p].payment_info, now)])]
    /\ loc' = [loc EXCEPT ![p].wid = wd_seq + 1]
    /\ hist' = [hist EXCEPT !.requested = @ + 1]
    /\ Goto(p, "wd_commit")
    /\ UNCHANGED <<dbvars, gm_seq, resp, conv, user_data, now, envvars>>

\* conn.commit(); context.user_data.clear(); "Withdrawal Requested!"
WdCommit(p) ==
    /\ pc[p] = "wd_commit"
    /\ Commit(p)
    /\ user_data' = [user_data EXCEPT ![loc[p].uid] = [email |-> <<>>, withdraw_method |-> NoText]]
    /\ conv' = [conv EXCEPT ![loc[p].uid].withdraw = "END"]
    /\ Finish(p, "withdraw:requested")
    /\ notices' = SendMessage(ADMIN_ID, "withdrawal_request", loc[p].wid)
    /\ UNCHANGED <<wd_seq, gm_seq, hist, now, audit_log, store_up, queue_card, blocked_bot>>

\* a statement of the withdrawal transaction raises: rollback, "Error
\* occurred!", the conversation ends
WdFail(p) ==
    /\ pc[p] \in WdLabels
    /\ tx' = [tx EXCEPT ![p] = EmptyTx]
    /\ conv' = [conv EXCEPT ![loc[p].uid].withdraw = "END"]
    /\ Finish(p, "withdraw:error")
    /\ UNCHANGED <<dbvars, wd_seq, gm_seq, hist, user_data, now, envvars>>

\* ------------------------------------------------------ withdrawal_queue
PendingWithdrawals(tbl) == {w \in DOMAIN tbl : tbl[w].status = "pending"}

\* SELECT ... WHERE w.status='pending' ORDER BY w.request_date LIMIT 1: one of
\* the pending rows with the least request_date
QueueHeads(tbl) ==
    {w \in PendingWithdrawals(tbl) :
        \A v \in PendingWithdrawals(tbl) : tbl[w].request_date <= tbl[v].request_date}

\* What the queue message shows once the branch has run on table tbl: no
\* buttons when nothing is pending, else the row read; method.upper() raises
\* on a row whose method is NULL, and the message is then left as it was.
QueueCards(tbl) ==
    IF PendingWithdrawals(tbl) = {}
    THEN {0}
    ELSE {IF tbl[w].method = NoText THEN queue_card ELSE w : w \in QueueHeads(tbl)}

\* the admin presses "Withdrawal queue" or "Next"
WithdrawalQueue ==
    /\ queue_card' \in QueueCards(withdrawals)
    /\ resp' = IF PendingWithdrawals(withdrawals) = {} THEN "queue:empty"
               ELSE IF \E w \in QueueHeads(withdrawals) : withdrawals[w].method # NoText
                    THEN "queue:card" ELSE "queue:error"
    /\ UNCHANGED <<dbvars, wd_seq, gm_seq, tx, pc, loc, hist, conv, user_data, now,
                   audit_log, notices, store_up, blocked_bot>>

\* ------------------------------------------------------------- aw_<wid>
\* UPDATE withdrawals SET status='approved' WHERE id=wid AND status='pending' RETURNING ...
AwUpdate(p, wid) ==
    /\ pc[p] = "idle"
    /\ wid \in DOMAIN withdrawals
    /\ ~LockedWithdrawal(p, wid)
    /\ IF withdrawals[wid].status = "pending"
       THEN /\ tx' = [tx EXCEPT ![p].withdrawals = Merge(@, [w \in {wid} |->
                         [withdrawals[wid] EXCEPT !.status = "approved", !.processed_date = now]])]
            /\ loc' = [loc EXCEPT ![p] = [Loc0 EXCEPT !.wid = wid,
                         !.uid = withdrawals[wid].user_id,
                         !.amount = withdrawals[wid].amount,
                         !.final_amount = withdrawals[wid].final_amount]]
            /\ Goto(p, "aw_commit")
            /\ UNCHANGED resp
       ELSE /\ Finish(p, "aw:already_processed")
            /\ UNCHANGED tx
    /\ UNCHANGED <<dbvars, wd_seq, gm_seq, hist, conv, user_data, now, envvars>>

AwCommit(p) ==
    /\ pc[p] = "aw_commit"
    /\ Commit(p)
    /\ Finish(p, "aw:approved")
    /\ audit_log' = LogAudit("approve_withdrawal", loc[p].uid, loc[p].wid)
    /\ notices' = NotifyUser(loc[p].uid, "withdrawal_approved", loc[p].wid)
    /\ queue_card' \in QueueCards(withdrawals')
    /\ UNCHANGED <<wd_seq, gm_seq, hist, conv, user_data, now, store_up, blocked_bot>>

\* ------------------------------------------------------------- rw_<wid>
\* UPDATE withdrawals SET status='rejected' WHERE id=wid AND status='pending' RETURNING ...
RwUpdate(p, wid) ==
    /\ pc[p] = "idle"
    /\ wid \in DOMAIN withdrawals
    /\ ~LockedWithdrawal(p, wid)
    /\ IF withdrawals[wid].status = "pending"
       THEN /\ tx' = [tx EXCEPT ![p].withdrawals = Merge(@, [w \in {wid} |->
                         [withdrawals[wid] EXCEPT !.status = "rejected", !.processed_date = now,
                                                  !.rejection_reason = "Payment info invalid"]])]
            /\ loc' = [loc EXCEPT ![p] = [Loc0 EXCEPT !.wid = wid,
                         !.uid = withdrawals[wid].user_id,
                         !.amount = RoundDecimal(withdrawals[wid].amount)]]
            /\ Goto(p, "rw_refund")
            /\ UNCHANGED resp
       ELSE /\ Finish(p, "rw:already_processed")
            /\ UNCHANGED tx
    /\ UNCHANGED <<dbvars, wd_seq, gm_seq, hist, conv, user_data, now, envvars>>

\* the refund of the net amount instead of the gross amount
RwRefundNet(p) ==
    /\ pc[p] = "rw_refund"
    /\ ~LockedUser(p, loc[p].uid)
    /\ CreditUser(p, loc[p].uid, withdrawals[loc[p].wid].final_amount, 0)
    /\ Goto(p, "rw_commit")
    /\ UNCHANGED <<dbvars, wd_seq, gm_seq, loc, resp, hist, conv, user_data, now, envvars>>

\* UPDATE users SET balance=balance+amount WHERE user_id=uid
RwRefund(p) ==
    /\ pc[p] = "rw_refund"
    /\ ~LockedUser(p, loc[p].uid)
    /\ CreditUser(p, loc[p].uid, loc[p].amount, 0)
    /\ Goto(p, "rw_commit")
    /\ UNCHANGED <<dbvars, wd_seq, gm_seq, loc, resp, hist, conv, user_data, now, envvars>>

RwCommit(p) ==
    /\ pc[p] = "rw_commit"
    /\ Commit(p)
    /\ Finish(p, "rw:rejected")
    /\ audit_log' = LogAudit("reject_withdrawal", loc[p].uid, loc[p].wid)
    /\ notices' = NotifyUser(loc[p].uid, "withdrawal_rejected", loc[p].wid)
    /\ queue_card' \in QueueCards(withdrawals')
    /\ UNCHANGED <<wd_seq, gm_seq, hist, conv, user_data, now, store_up, blocked_bot>>

\* midnight passes
NextDay ==
    /\ Date(now) < MaxDay
    /\ now' = (Date(now) + 1) * SecondsPerDay
    /\ UNCHANGED <<dbvars, wd_seq, gm_seq, tx, pc, loc, resp, hist, conv, user_data, envvars>>

\* --------------------------------------------- the withdrawal specification
\* The ledger as earlier operations leave it: user 1 has thirteen approved
\* submissions at the base rate (260) and one approved withdrawal of 110
\* requested today, so a balance of 150, and a UPI id; user 2 has a UPI id and
\* nothing else.
SeedRows == 1..13
SeedGross == 110 * Rupee
SeedUpi(u) == IF u = 1 THEN "one@upi" ELSE "two@upi"

InitLedger ==
    /\ gmail = [g \in SeedRows |->
                  [GmailRow(1, SeedEmail(g), BASE_RATE * Rupee, 0) EXCEPT
                      !.status = "approved", !.review_date = 0]]
    /\ withdrawals = [w \in {1} |->
                  [WithdrawalRow(1, SeedGross, CalcFee(SeedGross), CalcFinal(SeedGross),
                                 "upi", SeedUpi(1), 0) EXCEPT
                      !.status = "approved", !.processed_date = 0]]
    /\ users = [u \in UserIds |->
                  IF u = 1
                  THEN [UserRow(NoId) EXCEPT
                          !.balance = Cardinality(SeedRows) * BASE_RATE * Rupee - SeedGross,
                          !.total_gmail = Cardinality(SeedRows),
                          !.approved_gmail = Cardinality(SeedRows),
                          !.upi_id = SeedUpi(1)]
                  ELSE [UserRow(NoId) EXCEPT !.upi_id = SeedUpi(u)]]
    /\ referrals = EmptyFn
    /\ wd_seq = 1
    /\ gm_seq = Cardinality(SeedRows)
    /\ hist = Hist0
    /\ now = 0
    /\ IdleProcs

\* the amounts users type: below the minimum, the minimum, the minimum and
\* half a paisa, the whole balance
Amounts == {(100 * Rupee) - Cent, 100 * Rupee, (100 * Rupee) + (Cent \div 2), 150 * Rupee}

NextWithdraw ==
    \/ \E u \in UserIds : \E m \in {"upi", "usdt"} : WithdrawMethod(u, m)
    \/ \E p \in Procs : \E u \in UserIds : \E a \in Amounts : ReceiveWithdrawAmt(p, u, a)
    \/ \E p \in Procs : WdSelect(p)
    \/ \E p \in Procs : WdDebit(p)
    \/ \E p \in Procs : WdInsert(p)
    \/ \E p \in Procs : WdCommit(p)
    \/ \E p \in Procs : WdFail(p)
    \/ \E p \in Procs : \E w \in DOMAIN withdrawals : AwUpdate(p, w)
    \/ \E p \in Procs : AwCommit(p)
    \/ \E p \in Procs : \E w \in DOMAIN withdrawals : RwUpdate(p, w)
    \/ \E p \in Procs : RwRefund(p)
    \/ \E p \in Procs : RwCommit(p)
    \/ \E p \in Procs : pc[p] \notin WdLabels /\ TxFail(p)
    \/ NextDay

SpecWithdraw == InitLedger /\ [][NextWithdraw]_vars

\* ------------------------------------------------- the fee specification
\* One user types one amount after another into the withdrawal conversation;
\* the amounts have three decimals and cover the minimum fee, the point where
\* the percentage overtakes it, and ties of the rounding.
Mill == Cent \div 10
FeeInputs == {(100 * Rupee) + (k * Mill) : k \in 0..FeeSpan}
                \cup {(123 * Rupee) + (k * Mill) : k \in 0..FeeSpan}

NextFee ==
    \/ WithdrawMethod(1, "upi")
    \/ \E a \in FeeInputs : ReceiveWithdrawAmt(1, 1, a)
    \/ WdSelect(1)
    \/ WdDebit(1)
    \/ WdInsert(1)
    \/ WdCommit(1)

SpecFee == InitLedger /\ [][NextFee]_vars

\* ------------------------------------------------------------ email text
\* A text is a sequence of characters; a domain name is one character here.
ALLOWED_DOMAINS == {"gmail.com"}
DomainNames == {"gmail.com", "yahoo.com"}
LocalChars == {"a", "b", "x", ".", "+"}

\* str.lower() on one character
Lower(c) == CASE c = "A" -> "a" [] c = "B" -> "b" [] OTHER -> c

LowerText(s) == [i \in 1..Len(s) |-> Lower(s[i])]

RECURSIVE StripLeft(_)
StripLeft(s) == IF s # <<>> /\ Head(s) = " " THEN StripLeft(Tail(s)) ELSE s

RECURSIVE StripRight(_)
StripRight(s) ==
    IF s # <<>> /\ s[Len(s)] = " " THEN StripRight(SubSeq(s, 1, Len(s) - 1)) ELSE s

\* str.strip() / SQL TRIM
Strip(s) == StripRight(StripLeft(s))

\* position of the first c in s, 0 when there is none
IndexOf(s, c) ==
    IF \E i \in 1..Len(s) : s[i] = c
    THEN CHOOSE i \in 1..Len(s) : s[i] = c /\ \A j \in 1..(i - 1) : s[j] # c
    ELSE 0

IsDot(c) == c = "."
NotDot(c) == ~IsDot(c)

\* normalize_email
normalize_email(email) ==
    IF email = <<>> THEN email
    ELSE LET e == Strip(LowerText(email))
             at == IndexOf(e, "@")
             local == SubSeq(e, 1, at - 1)
             domain == SubSeq(e, at + 1, Len(e))
             nodots == SelectSeq(local, NotDot)
             plus == IndexOf(nodots, "+")
         IN  IF domain = <<"gmail.com">>
             THEN (IF plus = 0 THEN nodots ELSE SubSeq(nodots, 1, plus - 1)) \o <<"@">> \o domain
             ELSE local \o <<"@">> \o domain

\* validate_email: [ok, email]
validate_email(email) ==
    LET e == Strip(LowerText(email))
        at == IndexOf(e, "@")
    IN  IF email = <<>> \/ Len(email) > EMAIL_MAX_LEN
        THEN [ok |-> FALSE, email |-> <<>>]
        ELSE IF ~(/\ at > 1
                  /\ at = Len(e) - 1
                  /\ \A i \in 1..(at - 1) : e[i] \in LocalChars
                  /\ e[Len(e)] \in DomainNames)
        THEN [ok |-> FALSE, email |-> <<>>]
        ELSE IF e[Len(e)] \notin ALLOWED_DOMAINS
        THEN [ok |-> FALSE, email |-> <<>>]
        ELSE [ok |-> TRUE, email |-> e]

\* check_duplicate_email: SELECT ... FROM gmail WHERE LOWER(TRIM(email)) = normalized
DuplicateRows(email) ==
    {g \in DOMAIN gmail : Strip(LowerText(gmail[g].email)) = normalize_email(email)}

check_duplicate_email(email) == DuplicateRows(email) # {}

\* receive_email's answer to a duplicate: whose the found row is, and its status
DuplicateAnswer(u, g) ==
    "email:duplicate:" \o (IF gmail[g].user_id = u THEN "you" ELSE "another_user")
                       \o ":" \o gmail[g].status

\* calc_rate with thresholds that must be exceeded
calc_rateStrict(approved) ==
    IF approved > TOP_THRESHOLD THEN TOP_RATE
    ELSE IF approved > MID_THRESHOLD THEN MID_RATE
    ELSE BASE_RATE

\* calc_rate, on the approved_gmail it has read
calc_rate(approved) ==
    IF approved >= TOP_THRESHOLD THEN TOP_RATE
    ELSE IF approved >= MID_THRESHOLD THEN MID_RATE
    ELSE BASE_RATE

\* ------------------------------------------------- submission conversation
RpLabels == {"rp_insert", "rp_count", "rp_commit", "rp_submit_time"}

ClearedUserData == [email |-> <<>>, withdraw_method |-> NoText]

\* callback "submit": the cooldown (can_submit_gmail), then the EMAIL state
SubmitStart(u) ==
    /\ u \in DOMAIN users
    /\ CallbackGate(u)
    /\ IF users[u].last_submit_time # NoTime
          /\ now - users[u].last_submit_time < SUBMIT_COOLDOWN
       THEN /\ resp' = "submit:cooldown"
            /\ UNCHANGED conv
       ELSE /\ conv' = [conv EXCEPT ![u].gmail = IF @ = "END" THEN "EMAIL" ELSE @]
            /\ UNCHANGED resp
    /\ UNCHANGED <<dbvars, wd_seq, gm_seq, tx, pc, loc, hist, user_data, now, envvars>>

\* receive_email that starts the cooldown as soon as the address is accepted
ReceiveEmailStartsCooldown(u, text) ==
    /\ conv[u].gmail = "EMAIL"
    /\ LET v == validate_email(Strip(text)) IN
       IF ~v.ok
       THEN /\ resp' = "email:invalid"
            /\ UNCHANGED <<conv, user_data, users>>
       ELSE IF check_duplicate_email(v.email)
       THEN /\ \E g \in DuplicateRows(v.email) : resp' = DuplicateAnswer(u, g)
            /\ UNCHANGED <<conv, user_data, users>>
       ELSE /\ user_data' = [user_data EXCEPT ![u].email = v.email]
            /\ conv' = [conv EXCEPT ![u].gmail = "PASSWORD"]
            /\ resp' = "email:received"
            /\ users' = [users EXCEPT ![u].last_submit_time = now]
    /\ UNCHANGED <<gmail, withdrawals, referrals, wd_seq, gm_seq, tx, pc, loc, hist, now, envvars>>

\* receive_email: validate_email, then check_duplicate_email (LIMIT 1 returns
\* any of the matching rows), then the PASSWORD state
ReceiveEmail(u, text) ==
    /\ conv[u].gmail = "EMAIL"
    /\ LET v == validate_email(Strip(text)) IN
       IF ~v.ok
       THEN /\ resp' = "email:invalid"
            /\ UNCHANGED <<conv, user_data>>
       ELSE IF check_duplicate_email(v.email)
       THEN /\ \E g \in DuplicateRows(v.email) : resp' = DuplicateAnswer(u, g)
            /\ UNCHANGED <<conv, user_data>>
       ELSE /\ user_data' = [user_data EXCEPT ![u].email = v.email]
            /\ conv' = [conv EXCEPT ![u].gmail = "PASSWORD"]
            /\ resp' = "email:received"
    /\ UNCHANGED <<dbvars, wd_seq, gm_seq, tx, pc, loc, hist, now, envvars>>

\* receive_password up to the INSERT: the password check and calc_rate
ReceivePassword(p, u, valid) ==
    /\ pc[p] = "idle"
    /\ conv[u].gmail = "PASSWORD"
    /\ hist.submitted + Cardinality({q \in Procs : pc[q] = "rp_insert"}) < MaxSubmissions
    /\ IF ~valid
       THEN /\ Finish(p, "password:invalid")
       ELSE /\ loc' = [loc EXCEPT ![p] = [Loc0 EXCEPT !.uid = u,
                         !.email = user_data[u].email,
                         !.reward = calc_rate(users[u].approved_gmail) * Rupee]]
            /\ Goto(p, "rp_insert")
            /\ UNCHANGED resp
    /\ UNCHANGED <<dbvars, wd_seq, gm_seq, tx, hist, conv, user_data, now, envvars>>

\* receive_password's INSERT with the cooldown time written in the same
\* transaction, before the row is known to be accepted
RpInsertStampsTime(p) ==
    /\ pc[p] = "rp_insert"
    /\ ~\E q \in Procs \ {p} : \E g \in DOMAIN tx[q].gmail : tx[q].gmail[g].email = loc[p].email
    /\ ~LockedUser(p, loc[p].uid)
    /\ gm_seq' = gm_seq + 1
    /\ users' = [users EXCEPT ![loc[p].uid].last_submit_time = now]
    /\ IF \E g \in DOMAIN gmail : gmail[g].email = loc[p].email
       THEN /\ tx' = [tx EXCEPT ![p] = EmptyTx]
            /\ conv' = [conv EXCEPT ![loc[p].uid].gmail = "END"]
            /\ Finish(p, "password:duplicate_submission")
       ELSE /\ tx' = [tx EXCEPT ![p].gmail = Merge(@, [g \in {gm_seq + 1} |->
                         GmailRow(loc[p].uid, loc[p].email, loc[p].reward, now)])]
            /\ loc' = [loc EXCEPT ![p].gid = gm_seq + 1]
            /\ Goto(p, "rp_count")
            /\ UNCHANGED <<resp, conv>>
    /\ hist' = [hist EXCEPT !.submitted = @ + 1]
    /\ UNCHANGED <<gmail, withdrawals, referrals, wd_seq, user_data, now, envvars>>

\* INSERT INTO gmail (...) RETURNING id, under UNIQUE(email); IntegrityError
\* answers "Duplicate submission!"
RpInsert(p) ==
    /\ pc[p] = "rp_insert"
    /\ ~\E q \in Procs \ {p} : \E g \in DOMAIN tx[q].gmail : tx[q].gmail[g].email = loc[p].email
    /\ gm_seq' = gm_seq + 1
    /\ IF \E g \in DOMAIN gmail : gmail[g].email = loc[p].email
       THEN /\ tx' = [tx EXCEPT ![p] = EmptyTx]
            /\ conv' = [conv EXCEPT ![loc[p].uid].gmail = "END"]
            /\ Finish(p, "password:duplicate_submission")
       ELSE /\ tx' = [tx EXCEPT ![p].gmail = Merge(@, [g \in {gm_seq + 1} |->
                         GmailRow(loc[p].uid, loc[p].email, loc[p].reward, now)])]
            /\ loc' = [loc EXCEPT ![p].gid = gm_seq + 1]
            /\ Goto(p, "rp_count")
            /\ UNCHANGED <<resp, conv>>
    /\ hist' = [hist EXCEPT !.submitted = @ + 1]
    /\ UNCHANGED <<dbvars, wd_seq, user_data, now, envvars>>

\* UPDATE users SET total_gmail=total_gmail+1 WHERE user_id=uid
RpCount(p) ==
    /\ pc[p] = "rp_count"
    /\ ~LockedUser(p, loc[p].uid)
    /\ tx' = [tx EXCEPT ![p].users = Merge(@, [u \in {loc[p].uid} |->
                  [ViewUsers(p)[loc[p].uid] EXCEPT !.total_gmail = @ + 1]])]
    /\ Goto(p, "rp_commit")
    /\ UNCHANGED <<dbvars, wd_seq, gm_seq, loc, resp, hist, conv, user_data, now, envvars>>

RpCommit(p) ==
    /\ pc[p] = "rp_commit"
    /\ Commit(p)
    /\ Goto(p, "rp_submit_time")
    /\ UNCHANGED <<wd_seq, gm_seq, loc, resp, hist, conv, user_data, now, envvars>>

\* update_submit_time, context.user_data.clear(), "Submitted Successfully!"
RpSubmitTime(p) ==
    /\ pc[p] = "rp_submit_time"
    /\ ~LockedUser(p, loc[p].uid)
    /\ users' = [users EXCEPT ![loc[p].uid].last_submit_time = now]
    /\ user_data' = [user_data EXCEPT ![loc[p].uid] = ClearedUserData]
    /\ conv' = [conv EXCEPT ![loc[p].uid].gmail = "END"]
    /\ Finish(p, "password:submitted")
    /\ notices' = SendMessage(ADMIN_ID, "new_gmail", loc[p].gid)
    /\ UNCHANGED <<gmail, withdrawals, referrals, wd_seq, gm_seq, tx, hist, now, audit_log, store_up, queue_card, blocked_bot>>

\* a statement of receive_password raises: rollback, "Error occurred!", END
RpFail(p) ==
    /\ pc[p] \in RpLabels
    /\ tx' = [tx EXCEPT ![p] = EmptyTx]
    /\ conv' = [conv EXCEPT ![loc[p].uid].gmail = "END"]
    /\ Finish(p, "password:error")
    /\ UNCHANGED <<dbvars, wd_seq, gm_seq, hist, user_data, now, envvars>>

\* /cancel: the fallback of the first conversation in which the user has a
\* state; context.user_data.clear(), END
Cancel(u) ==
    /\ TextGoesTo(u) # "none"
    /\ user_data' = [user_data EXCEPT ![u] = ClearedUserData]
    /\ conv' = [conv EXCEPT ![u][TextGoesTo(u)] = "END"]
    /\ resp' = "cancelled"
    /\ UNCHANGED <<dbvars, wd_seq, gm_seq, tx, pc, loc, hist, now, envvars>>

\* the submission cooldown passes
CooldownElapses ==
    /\ now + SUBMIT_COOLDOWN <= MaxCooldowns * SUBMIT_COOLDOWN
    /\ now' = now + SUBMIT_COOLDOWN
    /\ UNCHANGED <<dbvars, wd_seq, gm_seq, tx, pc, loc, resp, hist, conv, user_data, envvars>>

\* ------------------------------------------- the submission specification
\* the users have sent /start; nothing has been submitted yet
InitRegistered ==
    /\ users = [u \in UserIds |-> UserRow(NoId)]
    /\ gmail = EmptyFn
    /\ withdrawals = EmptyFn
    /\ referrals = EmptyFn
    /\ wd_seq = 0
    /\ gm_seq = 0
    /\ hist = Hist0
    /\ now = 0
    /\ IdleProcs

\* the texts users send as an email address: an address, its aliases by
\* case, by dot and +tag, and by surrounding blanks, the address at another
\* domain, and a text without @
LocalParts == {<<"a", "b">>, <<"A", "b">>, <<"a", ".", "b", "+", "x">>}
EmailTexts == {l \o <<"@", "gmail.com">> : l \in LocalParts}
                 \cup {<<" ", "a", "b", "@", "gmail.com", " ">>,
                       <<"a", "b", "@", "yahoo.com">>,
                       <<"a", "b">>}

NextCreate ==
    \/ \E u \in UserIds : SubmitStart(u)
    \/ \E u \in UserIds : \E t \in EmailTexts : ReceiveEmail(u, t)
    \/ \E p \in Procs : \E u \in UserIds : \E valid \in BOOLEAN : ReceivePassword(p, u, valid)
    \/ \E p \in Procs : RpInsert(p)
    \/ \E p \in Procs : RpCount(p)
    \/ \E p \in Procs : RpCommit(p)
    \/ \E p \in Procs : RpSubmitTime(p)
    \/ \E p \in Procs : RpFail(p)
    \/ \E u \in UserIds : Cancel(u)
    \/ CooldownElapses

SpecCreate == InitRegistered /\ [][NextCreate]_vars

\* ------------------------------------------------- the tier specification
\* User 1 is one approval short of the middle tier: 49 approved submissions
\* at the base rate. The user submits, and the admin approves, in any order.
TierRows == 1..(MID_THRESHOLD - 1)

InitTier ==
    /\ gmail = [g \in TierRows |->
                  [GmailRow(1, SeedEmail(g), BASE_RATE * Rupee, 0) EXCEPT
                      !.status = "approved", !.review_date = 0]]
    /\ users = [u \in UserIds |->
                  IF u = 1
                  THEN [UserRow(NoId) EXCEPT
                          !.balance = Cardinality(TierRows) * BASE_RATE * Rupee,
                          !.total_gmail = Cardinality(TierRows),
                          !.approved_gmail = Cardinality(TierRows)]
                  ELSE UserRow(NoId)]
    /\ withdrawals = EmptyFn
    /\ referrals = EmptyFn
    /\ wd_seq = 0
    /\ gm_seq = Cardinality(TierRows)
    /\ hist = Hist0
    /\ now = 0
    /\ IdleProcs

NextTier ==
    \/ SubmitStart(1)
    \/ \E t \in EmailTexts : ReceiveEmail(1, t)
    \/ \E p \in Procs : ReceivePassword(p, 1, TRUE)
    \/ \E p \in Procs : RpInsert(p)
    \/ \E p \in Procs : RpCount(p)
    \/ \E p \in Procs : RpCommit(p)
    \/ \E p \in Procs : RpSubmitTime(p)
    \/ CooldownElapses
    \/ \E p \in Procs : \E g \in DOMAIN gmail \ TierRows : ApproveUpdate(p, g, ButtonUid(g))
    \/ \E p \in Procs : ApproveCount(p)
    \/ \E p \in Procs : ApproveCredit(p)
    \/ \E p \in Procs : ApproveCommit(p)
    \/ \E p \in Procs : ApproveAllSelect(p, 1)
    \/ \E p \in Procs : ApproveAllCount(p)
    \/ \E p \in Procs : ApproveAllUpdate(p)
    \/ \E p \in Procs : ApproveAllCredit(p)
    \/ \E p \in Procs : ApproveAllCommit(p)

SpecTier == InitTier /\ [][NextTier]_vars

\* ------------------------------------------------------------ block_<uid>
\* UPDATE users SET is_blocked = 1 - is_blocked WHERE user_id=uid; SELECT is_blocked
BlockUpdate(p, uid) ==
    /\ pc[p] = "idle"
    /\ ~LockedUser(p, uid)
    /\ IF uid \in DOMAIN users
       THEN /\ tx' = [tx EXCEPT ![p].users = Merge(@, [u \in {uid} |->
                         [users[uid] EXCEPT !.is_blocked = 1 - @]])]
            /\ loc' = [loc EXCEPT ![p] = [Loc0 EXCEPT !.uid = uid]]
            /\ Goto(p, "block_commit")
            /\ UNCHANGED resp
       ELSE /\ Finish(p, "error")
            /\ UNCHANGED tx
    /\ UNCHANGED <<dbvars, wd_seq, gm_seq, hist, conv, user_data, now, envvars>>

\* conn.commit(), then "Blocked!" or "Unblocked!"
BlockCommit(p) ==
    /\ pc[p] = "block_commit"
    /\ Commit(p)
    /\ Finish(p, IF tx[p].users[loc[p].uid].is_blocked = 1 THEN "block:blocked"
                                                             ELSE "block:unblocked")
    /\ audit_log' = LogAudit(IF tx[p].users[loc[p].uid].is_blocked = 1 THEN "block_user" ELSE "unblock_user",
                            loc[p].uid, 0)
    /\ notices' = SendMessage(loc[p].uid, IF tx[p].users[loc[p].uid].is_blocked = 1 THEN "blocked"
                                                                                   ELSE "unblocked", 0)
    /\ UNCHANGED <<wd_seq, gm_seq, hist, conv, user_data, now, store_up, queue_card, blocked_bot>>

\* ------------------------------------------------ the blocking specification
\* user 1 goes through the submission conversation while the admin blocks
\* and unblocks users
NextBlock ==
    \/ SubmitStart(1)
    \/ \E t \in EmailTexts : ReceiveEmail(1, t)
    \/ \E p \in Procs : ReceivePassword(p, 1, TRUE)
    \/ \E p \in Procs : RpInsert(p)
    \/ \E p \in Procs : RpCount(p)
    \/ \E p \in Procs : RpCommit(p)
    \/ \E p \in Procs : RpSubmitTime(p)
    \/ CooldownElapses
    \/ \E p \in Procs : \E u \in UserIds : CallbackGate(ADMIN_ID) /\ BlockUpdate(p, u)
    \/ \E p \in Procs : BlockCommit(p)

SpecBlock == InitRegistered /\ [][NextBlock]_vars

\* ------------------------------------------------- the caps specification
\* callback "withdraw": the menu. It reads the balance, the pending count and
\* the daily count and shows either a refusal or the method buttons; it
\* changes nothing.
WithdrawMenu(u) ==
    /\ u \in DOMAIN users
    /\ CallbackGate(u)
    /\ LET pending_count == Cardinality({w \in DOMAIN withdrawals :
                                /\ withdrawals[w].user_id = u
                                /\ withdrawals[w].status = "pending"}) IN
       resp' = IF ~CanWithdrawToday(u) THEN "withdraw_menu:daily_limit"
               ELSE IF pending_count >= MAX_PENDING_WITHDRAWALS
                    THEN "withdraw_menu:pending_limit"
               ELSE IF users[u].balance < MIN_WITHDRAWAL * Rupee
                    THEN "withdraw_menu:below_minimum"
               ELSE "withdraw_menu:choose_method"
    /\ UNCHANGED <<dbvars, wd_seq, gm_seq, tx, pc, loc, hist, conv, user_data, now, envvars>>

\* User 1 has twenty-five approved submissions at the base rate (500) and two
\* withdrawals of 100 requested today, one approved and one pending, so a
\* balance of 300: one request short of the daily cap and of the pending cap.
CapRows == 1..25
CapGross == 100 * Rupee

InitCap ==
    /\ gmail = [g \in CapRows |->
                  [GmailRow(1, SeedEmail(g), BASE_RATE * Rupee, 0) EXCEPT
                      !.status = "approved", !.review_date = 0]]
    /\ withdrawals = [w \in {1, 2} |->
                  [WithdrawalRow(1, CapGross, CalcFee(CapGross), CalcFinal(CapGross),
                                 "upi", SeedUpi(1), 0) EXCEPT
                      !.status = IF w = 1 THEN "approved" ELSE "pending",
                      !.processed_date = IF w = 1 THEN 0 ELSE NoTime]]
    /\ users = [u \in UserIds |->
                  IF u = 1
                  THEN [UserRow(NoId) EXCEPT
                          !.balance = Cardinality(CapRows) * BASE_RATE * Rupee - 2 * CapGross,
                          !.total_gmail = Cardinality(CapRows),
                          !.approved_gmail = Cardinality(CapRows),
                          !.upi_id = SeedUpi(1)]
                  ELSE [UserRow(NoId) EXCEPT !.upi_id = SeedUpi(u)]]
    /\ referrals = EmptyFn
    /\ wd_seq = 2
    /\ gm_seq = Cardinality(CapRows)
    /\ hist = Hist0
    /\ now = 0
    /\ IdleProcs

NextCap ==
    \/ WithdrawMenu(1)
    \/ WithdrawMethod(1, "upi")
    \/ \E p \in Procs : ReceiveWithdrawAmt(p, 1, CapGross)
    \/ \E p \in Procs : WdSelect(p)
    \/ \E p \in Procs : WdDebit(p)
    \/ \E p \in Procs : WdInsert(p)
    \/ \E p \in Procs : WdCommit(p)
    \/ \E p \in Procs : \E w \in DOMAIN withdrawals : AwUpdate(p, w)
    \/ \E p \in Procs : AwCommit(p)
    \/ \E p \in Procs : \E w \in DOMAIN withdrawals : RwUpdate(p, w)
    \/ \E p \in Procs : RwRefund(p)
    \/ \E p \in Procs : RwCommit(p)
    \/ NextDay

SpecCap == InitCap /\ [][NextCap]_vars

\* ------------------------------------------------ the actors specification
\* The ledger of InitCap with one more submission, still pending: that of
\* user 2, whom user 1 referred.
ActorPending == Cardinality(CapRows) + 1

InitActor ==
    /\ gmail = [g \in CapRows \cup {ActorPending} |->
                  IF g \in CapRows
                  THEN [GmailRow(1, SeedEmail(g), BASE_RATE * Rupee, 0) EXCEPT
                          !.status = "approved", !.review_date = 0]
                  ELSE GmailRow(2, SeedEmail(g), BASE_RATE * Rupee, 0)]
    /\ withdrawals = [w \in {1, 2} |->
                  [WithdrawalRow(1, CapGross, CalcFee(CapGross), CalcFinal(CapGross),
                                 "upi", SeedUpi(1), 0) EXCEPT
                      !.status = IF w = 1 THEN "approved" ELSE "pending",
                      !.processed_date = IF w = 1 THEN 0 ELSE NoTime]]
    /\ users = [u \in UserIds |->
                  IF u = 1
                  THEN [UserRow(NoId) EXCEPT
                          !.balance = Cardinality(CapRows) * BASE_RATE * Rupee - 2 * CapGross,
                          !.total_gmail = Cardinality(CapRows),
                          !.approved_gmail = Cardinality(CapRows),
                          !.upi_id = SeedUpi(1)]
                  ELSE [UserRow(1) EXCEPT !.total_gmail = 1, !.upi_id = SeedUpi(u)]]
    /\ referrals = [r \in {2} |-> ReferralRow(1)]
    /\ wd_seq = 2
    /\ gm_seq = ActorPending
    /\ hist = Hist0
    /\ now = 0
    /\ IdleProcs

\* Every callback query is sent by a user other than the administrator
\* (q.from_user.id = actor); the branches are the code's, entered after the
\* blocked gate of callback.
NextActor ==
    \/ \E actor \in UserIds : \E p \in Procs : \E g \in DOMAIN gmail :
          CallbackGate(actor) /\ ApproveUpdate(p, g, ButtonUid(g))
    \/ \E p \in Procs : ApproveCount(p)
    \/ \E p \in Procs : ApproveCredit(p)
    \/ \E p \in Procs : ApproveReferral(p)
    \/ \E p \in Procs : ApproveRefCredit(p)
    \/ \E p \in Procs : ApproveCommit(p)
    \/ \E actor \in UserIds : \E p \in Procs : \E g \in DOMAIN gmail :
          CallbackGate(actor) /\ RejectUpdate(p, g, ButtonUid(g))
    \/ \E p \in Procs : RejectCommit(p)
    \/ \E actor \in UserIds : \E p \in Procs : \E w \in DOMAIN withdrawals :
          CallbackGate(actor) /\ AwUpdate(p, w)
    \/ \E p \in Procs : AwCommit(p)
    \/ \E actor \in UserIds : \E p \in Procs : \E w \in DOMAIN withdrawals :
          CallbackGate(actor) /\ RwUpdate(p, w)
    \/ \E p \in Procs : RwRefund(p)
    \/ \E p \in Procs : RwCommit(p)
    \/ \E actor \in UserIds : \E p \in Procs : \E u \in UserIds :
          CallbackGate(actor) /\ BlockUpdate(p, u)
    \/ \E p \in Procs : BlockCommit(p)

SpecActor == InitActor /\ [][NextActor]_vars

\* ------------------------------------------------- the audit specification
\* the store stops, or starts again, accepting new connections
StoreOutage ==
    /\ store_up' = ~store_up
    /\ UNCHANGED <<dbvars, wd_seq, gm_seq, tx, pc, loc, resp, hist, conv, user_data, now,
                   audit_log, notices, blocked_bot, queue_card>>

\* a user blocks the bot, or unblocks it
UserBlocksBot(u) ==
    /\ blocked_bot' = IF u \in blocked_bot THEN blocked_bot \ {u} ELSE blocked_bot \cup {u}
    /\ UNCHANGED <<dbvars, wd_seq, gm_seq, tx, pc, loc, resp, hist, conv, user_data, now,
                   audit_log, notices, store_up, queue_card>>

\* The administrator works through the queues of InitActor (an approved
\* submission, the pending one, both withdrawals, user 2's blocked flag) while
\* the store comes and goes; a handler starts only when it gets its connection.
NextAudit ==
    \/ \E p \in Procs : \E g \in {1, ActorPending} :
          CallbackGate(ADMIN_ID) /\ store_up /\ ApproveUpdate(p, g, ButtonUid(g))
    \/ \E p \in Procs : ApproveCount(p)
    \/ \E p \in Procs : ApproveCredit(p)
    \/ \E p \in Procs : ApproveReferral(p)
    \/ \E p \in Procs : ApproveRefCredit(p)
    \/ \E p \in Procs : ApproveCommit(p)
    \/ \E p \in Procs : \E g \in {1, ActorPending} :
          CallbackGate(ADMIN_ID) /\ store_up /\ RejectUpdate(p, g, ButtonUid(g))
    \/ \E p \in Procs : RejectCommit(p)
    \/ \E p \in Procs : \E w \in DOMAIN withdrawals :
          CallbackGate(ADMIN_ID) /\ store_up /\ AwUpdate(p, w)
    \/ \E p \in Procs : AwCommit(p)
    \/ \E p \in Procs : \E w \in DOMAIN withdrawals :
          CallbackGate(ADMIN_ID) /\ store_up /\ RwUpdate(p, w)
    \/ \E p \in Procs : RwRefund(p)
    \/ \E p \in Procs : RwCommit(p)
    \/ \E p \in Procs : CallbackGate(ADMIN_ID) /\ store_up /\ BlockUpdate(p, 2)
    \/ \E p \in Procs : BlockCommit(p)
    \/ StoreOutage

SpecAudit == InitActor /\ [][NextAudit]_vars

\* ------------------------------------------ the notification specification
\* The administrator works through the queues of InitActor while users block
\* and unblock the bot.
NextNotify ==
    \/ \E p \in Procs : \E g \in {1, ActorPending} :
          CallbackGate(ADMIN_ID) /\ ApproveUpdate(p, g, ButtonUid(g))
    \/ \E p \in Procs : ApproveCount(p)
    \/ \E p \in Procs : ApproveCredit(p)
    \/ \E p \in Procs : ApproveReferral(p)
    \/ \E p \in Procs : ApproveRefCredit(p)
    \/ \E p \in Procs : ApproveCommit(p)
    \/ \E p \in Procs : \E g \in {1, ActorPending} :
          CallbackGate(ADMIN_ID) /\ RejectUpdate(p, g, ButtonUid(g))
    \/ \E p \in Procs : RejectCommit(p)
    \/ \E p \in Procs : \E w \in DOMAIN withdrawals :
          CallbackGate(ADMIN_ID) /\ AwUpdate(p, w)
    \/ \E p \in Procs : AwCommit(p)
    \/ \E p \in Procs : \E w \in DOMAIN withdrawals :
          CallbackGate(ADMIN_ID) /\ RwUpdate(p, w)
    \/ \E p \in Procs : RwRefund(p)
    \/ \E p \in Procs : RwCommit(p)
    \/ \E p \in Procs : CallbackGate(ADMIN_ID) /\ BlockUpdate(p, 2)
    \/ \E p \in Procs : BlockCommit(p)
    \/ \E u \in UserIds : UserBlocksBot(u)

SpecNotify == InitActor /\ [][NextNotify]_vars

\* ------------------------------------------------------------------ /start
StartLabels == {"start_insert", "start_referral", "start_commit"}

\* start that registers the referral of a link also for a user who exists
StartReRegisters(p, u, arg) ==
    /\ pc[p] = "idle"
    /\ IF is_blocked(u)
       THEN /\ Finish(p, "start:blocked")
       ELSE /\ loc' = [loc EXCEPT ![p] = [Loc0 EXCEPT !.uid = u,
                         !.referrer_id = IF arg = u THEN NoId ELSE arg]]
            /\ Goto(p, IF u \in DOMAIN users THEN "start_referral" ELSE "start_insert")
            /\ UNCHANGED resp
    /\ UNCHANGED <<dbvars, wd_seq, gm_seq, tx, hist, conv, user_data, now, envvars>>

\* start up to the first SELECT: the blocked check, the referral argument
\* (a self-referral becomes None), SELECT user_id FROM users WHERE user_id=u
Start(p, u, arg) ==
    /\ pc[p] = "idle"
    /\ IF is_blocked(u)
       THEN /\ Finish(p, "start:blocked")
       ELSE IF u \in DOMAIN users
       THEN /\ Finish(p, "start:menu")
       ELSE /\ loc' = [loc EXCEPT ![p] = [Loc0 EXCEPT !.uid = u,
                         !.referrer_id = IF arg = u THEN NoId ELSE arg]]
            /\ Goto(p, "start_insert")
            /\ UNCHANGED resp
    /\ UNCHANGED <<dbvars, wd_seq, gm_seq, tx, hist, conv, user_data, now, envvars>>

\* INSERT INTO users (user_id, ..., referrer_id, ...): it waits for an open
\* transaction that inserted the same user_id and raises on the primary key
\* when that row is committed; start does not catch it
StartInsertUser(p) ==
    /\ pc[p] = "start_insert"
    /\ ~LockedUser(p, loc[p].uid)
    /\ IF loc[p].uid \in DOMAIN users
       THEN /\ Finish(p, "error")
            /\ UNCHANGED tx
       ELSE /\ tx' = [tx EXCEPT ![p].users = Merge(@, [u \in {loc[p].uid} |->
                         UserRow(loc[p].referrer_id)])]
            /\ Goto(p, "start_referral")
            /\ UNCHANGED <<loc, resp>>
    /\ UNCHANGED <<dbvars, wd_seq, gm_seq, hist, conv, user_data, now, envvars>>

\* the referral INSERT without the SELECT that looks for the referrer
StartReferralAnyReferrer(p) ==
    /\ pc[p] = "start_referral"
    /\ LET u == loc[p].uid
           ref_id == loc[p].referrer_id IN
       IF ref_id # NoId /\ ref_id # u
       THEN /\ ~LockedReferral(p, u)
            /\ tx' = [tx EXCEPT ![p].referrals = Merge(@, [r \in {u} |-> ReferralRow(ref_id)])]
            /\ notices' = NotifyUser(ref_id, "referral_joined", u)
       ELSE UNCHANGED <<tx, notices>>
    /\ Goto(p, "start_commit")
    /\ UNCHANGED <<dbvars, wd_seq, gm_seq, loc, resp, hist, conv, user_data, now, audit_log,
                   store_up, queue_card, blocked_bot>>

\* if ref_id and ref_id != user.id: SELECT the referrer; if found, INSERT INTO
\* referrals (..., rewarded) VALUES (..., 0) and notify the referrer. The
\* IntegrityError of UNIQUE(referred_id) is caught, but it has aborted the
\* transaction: the commit that follows commits nothing.
StartReferral(p) ==
    /\ pc[p] = "start_referral"
    /\ LET u == loc[p].uid
           ref_id == loc[p].referrer_id IN
       IF ref_id # NoId /\ ref_id # u /\ ref_id \in DOMAIN ViewUsers(p)
       THEN /\ ~LockedReferral(p, u)
            /\ IF u \in DOMAIN referrals
               THEN /\ tx' = [tx EXCEPT ![p] = EmptyTx]
                    /\ UNCHANGED notices
               ELSE /\ tx' = [tx EXCEPT ![p].referrals =
                                 Merge(@, [r \in {u} |-> ReferralRow(ref_id)])]
                    /\ notices' = NotifyUser(ref_id, "referral_joined", u)
       ELSE UNCHANGED <<tx, notices>>
    /\ Goto(p, "start_commit")
    /\ UNCHANGED <<dbvars, wd_seq, gm_seq, loc, resp, hist, conv, user_data, now, audit_log,
                   store_up, queue_card, blocked_bot>>

\* the with-block ends: get_db commits; the menu is shown
StartCommit(p) ==
    /\ pc[p] = "start_commit"
    /\ Commit(p)
    /\ Finish(p, "start:menu")
    /\ UNCHANGED <<wd_seq, gm_seq, hist, conv, user_data, now, envvars>>

\* a statement of start raises: rollback, the exception leaves the handler
StartFail(p) ==
    /\ pc[p] \in StartLabels
    /\ tx' = [tx EXCEPT ![p] = EmptyTx]
    /\ Finish(p, "error")
    /\ UNCHANGED <<dbvars, wd_seq, gm_seq, hist, conv, user_data, now, envvars>>

\* ------------------------------------------ the registration specification
\* nobody has contacted the bot yet
InitEmpty ==
    /\ users = EmptyFn
    /\ gmail = EmptyFn
    /\ withdrawals = EmptyFn
    /\ referrals = EmptyFn
    /\ wd_seq = 0
    /\ gm_seq = 0
    /\ hist = Hist0
    /\ now = 0
    /\ IdleProcs

\* the referral arguments of /start: none, a user's id
StartArgs == UserIds \cup {NoId}

NextStart ==
    \/ \E p \in Procs : \E u \in UserIds : \E arg \in StartArgs : Start(p, u, arg)
    \/ \E p \in Procs : StartInsertUser(p)
    \/ \E p \in Procs : StartReferral(p)
    \/ \E p \in Procs : StartCommit(p)
    \/ \E p \in Procs : StartFail(p)
    \/ \E p \in Procs : \E u \in UserIds : CallbackGate(ADMIN_ID) /\ BlockUpdate(p, u)
    \/ \E p \in Procs : BlockCommit(p)

SpecStart == InitEmpty /\ [][NextStart]_vars

\* ------------------------------------------------- the rate specification
\* User 1 has some number of approved submissions, at or next to a tier
\* threshold, all paid at the base rate, and submits again.
RateCounts == {0, MID_THRESHOLD - 1, MID_THRESHOLD, TOP_THRESHOLD - 1, TOP_THRESHOLD,
               MaxApproved}

InitRate ==
    /\ \E n \in RateCounts :
         /\ gmail = [g \in 1..n |->
                       [GmailRow(1, SeedEmail(g), BASE_RATE * Rupee, 0) EXCEPT
                           !.status = "approved", !.review_date = 0]]
         /\ users = [u \in UserIds |->
                       IF u = 1
                       THEN [UserRow(NoId) EXCEPT !.balance = n * BASE_RATE * Rupee,
                                                  !.total_gmail = n,
                                                  !.approved_gmail = n]
                       ELSE UserRow(NoId)]
         /\ gm_seq = n
    /\ withdrawals = EmptyFn
    /\ referrals = EmptyFn
    /\ wd_seq = 0
    /\ hist = Hist0
    /\ now = 0
    /\ IdleProcs

NextRate ==
    \/ SubmitStart(1)
    \/ \E t \in EmailTexts : ReceiveEmail(1, t)
    \/ \E p \in Procs : ReceivePassword(p, 1, TRUE)
    \/ \E p \in Procs : RpInsert(p)
    \/ \E p \in Procs : RpCount(p)
    \/ \E p \in Procs : RpCommit(p)
    \/ \E p \in Procs : RpSubmitTime(p)
    \/ CooldownElapses

SpecRate == InitRate /\ [][NextRate]_vars

\* ------------------------------------------------- payment details
\* what a user types as a payment detail: the text, its length, its first
\* character and whether it has the shape [\w.-]+@[\w]+
PaymentTexts ==
    {[text |-> "new@upi", len |-> 7, first |-> "n", upi_shape |-> TRUE],
     [text |-> "new upi", len |-> 7, first |-> "n", upi_shape |-> FALSE],
     [text |-> "Tnew", len |-> 34, first |-> "T", upi_shape |-> FALSE]}

\* validate_upi
validate_upi(t) == t.len > 0 /\ t.len <= 50 /\ t.upi_shape

\* validate_usdt_address
validate_usdt_address(t) == t.len = 34 /\ t.first = "T"

\* callback set_upi / set_usdt: the entry point of upi_conv / usdt_conv
SetPaymentStart(u, m) ==
    /\ u \in DOMAIN users
    /\ CallbackGate(u)
    /\ conv' = IF m = "upi"
               THEN [conv EXCEPT ![u].upi = IF @ = "END" THEN "UPI_ID" ELSE @]
               ELSE [conv EXCEPT ![u].usdt = IF @ = "END" THEN "USDT_ADDRESS" ELSE @]
    /\ UNCHANGED <<dbvars, wd_seq, gm_seq, tx, pc, loc, resp, hist, user_data, now, envvars>>

\* receive_upi that also rewrites the destination of the user's pending requests
ReceiveUpiRewritesPending(u, t) ==
    /\ TextGoesTo(u) = "upi"
    /\ conv[u].upi = "UPI_ID"
    /\ IF ~validate_upi(t)
       THEN /\ resp' = "upi:invalid"
            /\ UNCHANGED <<users, withdrawals, conv>>
       ELSE \/ /\ \A q \in Procs : u \notin DOMAIN tx[q].users
               /\ users' = [users EXCEPT ![u].upi_id = t.text]
               /\ withdrawals' = [w \in DOMAIN withdrawals |->
                     IF withdrawals[w].user_id = u /\ withdrawals[w].status = "pending"
                        /\ withdrawals[w].method = "upi"
                     THEN [withdrawals[w] EXCEPT !.payment_info = t.text]
                     ELSE withdrawals[w]]
               /\ resp' = "upi:saved"
               /\ conv' = [conv EXCEPT ![u].upi = "END"]
            \/ /\ resp' = "upi:error"
               /\ conv' = [conv EXCEPT ![u].upi = "END"]
               /\ UNCHANGED <<users, withdrawals>>
    /\ UNCHANGED <<gmail, referrals, wd_seq, gm_seq, tx, pc, loc, hist, user_data, now, envvars>>

\* receive_upi: validate_upi, UPDATE users SET upi_id, commit; an exception
\* answers "Error occurred!" and ends the conversation
ReceiveUpi(u, t) ==
    /\ TextGoesTo(u) = "upi"
    /\ conv[u].upi = "UPI_ID"
    /\ IF ~validate_upi(t)
       THEN /\ resp' = "upi:invalid"
            /\ UNCHANGED <<users, withdrawals, conv>>
       ELSE \/ /\ \A q \in Procs : u \notin DOMAIN tx[q].users
               /\ users' = [users EXCEPT ![u].upi_id = t.text]
               /\ UNCHANGED withdrawals
               /\ resp' = "upi:saved"
               /\ conv' = [conv EXCEPT ![u].upi = "END"]
            \/ /\ resp' = "upi:error"
               /\ conv' = [conv EXCEPT ![u].upi = "END"]
               /\ UNCHANGED <<users, withdrawals>>
    /\ UNCHANGED <<gmail, referrals, wd_seq, gm_seq, tx, pc, loc, hist, user_data, now, envvars>>

\* receive_usdt: validate_usdt_address, UPDATE users SET usdt_address, commit
ReceiveUsdt(u, t) ==
    /\ TextGoesTo(u) = "usdt"
    /\ conv[u].usdt = "USDT_ADDRESS"
    /\ IF ~validate_usdt_address(t)
       THEN /\ resp' = "usdt:invalid"
            /\ UNCHANGED <<users, conv>>
       ELSE \/ /\ \A q \in Procs : u \notin DOMAIN tx[q].users
               /\ users' = [users EXCEPT ![u].usdt_address = t.text]
               /\ resp' = "usdt:saved"
               /\ conv' = [conv EXCEPT ![u].usdt = "END"]
            \/ /\ resp' = "usdt:error"
               /\ conv' = [conv EXCEPT ![u].usdt = "END"]
               /\ UNCHANGED users
    /\ UNCHANGED <<gmail, withdrawals, referrals, wd_seq, gm_seq, tx, pc, loc, hist, user_data, now,
                   envvars>>

\* ------------------------------------------- the destination specification
\* User 1 of the seeded ledger requests withdrawals by either method, edits
\* the UPI id and the crypto address, and the admin approves and rejects.
NextFrozen ==
    \/ \E m \in {"upi", "usdt"} : WithdrawMethod(1, m)
    \/ \E p \in Procs : ReceiveWithdrawAmt(p, 1, MIN_WITHDRAWAL * Rupee)
    \/ \E p \in Procs : WdSelect(p)
    \/ \E p \in Procs : WdDebit(p)
    \/ \E p \in Procs : WdInsert(p)
    \/ \E p \in Procs : WdCommit(p)
    \/ \E p \in Procs : WdFail(p)
    \/ \E p \in Procs : \E w \in DOMAIN withdrawals : AwUpdate(p, w)
    \/ \E p \in Procs : AwCommit(p)
    \/ \E p \in Procs : \E w \in DOMAIN withdrawals : RwUpdate(p, w)
    \/ \E p \in Procs : RwRefund(p)
    \/ \E p \in Procs : RwCommit(p)
    \/ \E m \in {"upi", "usdt"} : SetPaymentStart(1, m)
    \/ \E t \in PaymentTexts : ReceiveUpi(1, t)
    \/ \E t \in PaymentTexts : ReceiveUsdt(1, t)
    \/ Cancel(1)

SpecFrozen == InitLedger /\ [][NextFrozen]_vars

\* ------------------------------------------------- the flow specification
\* User 1 of the seeded ledger walks through the submission and the
\* withdrawal conversation, cancels or leaves them at any step, or completes
\* them. The user types an address or a text without @, and an amount below
\* the minimum or the minimum.
FlowTexts == {<<"a", "b", "@", "gmail.com">>, <<"a", "b">>}
FlowAmounts == {(MIN_WITHDRAWAL * Rupee) - Cent, MIN_WITHDRAWAL * Rupee}

NextFlow ==
    \/ SubmitStart(1)
    \/ \E t \in FlowTexts : ReceiveEmail(1, t)
    \/ \E p \in Procs : \E valid \in BOOLEAN : ReceivePassword(p, 1, valid)
    \/ \E p \in Procs : RpInsert(p)
    \/ \E p \in Procs : RpCount(p)
    \/ \E p \in Procs : RpCommit(p)
    \/ \E p \in Procs : RpSubmitTime(p)
    \/ \E p \in Procs : RpFail(p)
    \/ \E m \in {"upi", "usdt"} : WithdrawMethod(1, m)
    \/ \E p \in Procs : \E a \in FlowAmounts : ReceiveWithdrawAmt(p, 1, a)
    \/ \E p \in Procs : WdSelect(p)
    \/ \E p \in Procs : WdDebit(p)
    \/ \E p \in Procs : WdInsert(p)
    \/ \E p \in Procs : WdCommit(p)
    \/ \E p \in Procs : WdFail(p)
    \/ Cancel(1)
    \/ CooldownElapses

SpecFlow == InitLedger /\ [][NextFlow]_vars

\* ------------------------------------------------- callback claim_channel
\* check_channel: whether the user is a member is the channel's answer
ClaimChannel(p, u, member) ==
    /\ pc[p] = "idle"
    /\ CallbackGate(u)
    /\ IF member
       THEN /\ loc' = [loc EXCEPT ![p] = [Loc0 EXCEPT !.uid = u]]
            /\ Goto(p, "cc_update")
            /\ UNCHANGED resp
       ELSE Finish(p, "claim:join_first")
    /\ UNCHANGED <<dbvars, wd_seq, gm_seq, tx, hist, conv, user_data, now, envvars>>

\* the UPDATE without its channel_claimed=0 condition
CcUpdateUnguarded(p) ==
    /\ pc[p] = "cc_update"
    /\ ~LockedUser(p, loc[p].uid)
    /\ LET u == loc[p].uid IN
       IF u \in DOMAIN users
       THEN /\ tx' = [tx EXCEPT ![p].users = Merge(@, [x \in {u} |->
                         [users[u] EXCEPT !.balance = users[u].balance + (CHANNEL_BONUS * Rupee),
                                          !.channel_claimed = 1]])]
            /\ Goto(p, "cc_commit")
            /\ UNCHANGED <<loc, resp>>
       ELSE /\ Finish(p, "claim:already")
            /\ UNCHANGED tx
    /\ UNCHANGED <<dbvars, wd_seq, gm_seq, hist, conv, user_data, now, envvars>>

\* UPDATE users SET balance=balance+1, channel_claimed=1
\* WHERE user_id=u AND channel_claimed=0 RETURNING user_id; no row: "Already claimed!"
CcUpdate(p) ==
    /\ pc[p] = "cc_update"
    /\ ~LockedUser(p, loc[p].uid)
    /\ LET u == loc[p].uid IN
       IF u \in DOMAIN users /\ users[u].channel_claimed = 0
       THEN /\ tx' = [tx EXCEPT ![p].users = Merge(@, [x \in {u} |->
                         [users[u] EXCEPT !.balance = users[u].balance + (CHANNEL_BONUS * Rupee),
                                          !.channel_claimed = 1]])]
            /\ Goto(p, "cc_commit")
            /\ UNCHANGED <<loc, resp>>
       ELSE /\ Finish(p, "claim:already")
            /\ UNCHANGED tx
    /\ UNCHANGED <<dbvars, wd_seq, gm_seq, hist, conv, user_data, now, envvars>>

\* conn.commit(), "1 added!"
CcCommit(p) ==
    /\ pc[p] = "cc_commit"
    /\ Commit(p)
    /\ Finish(p, "claim:credited")
    /\ UNCHANGED <<wd_seq, gm_seq, hist, conv, user_data, now, envvars>>

\* ------------------------------------------------- the bonus specification
\* The users of the seeded ledger claim the channel bonus, again and again
\* and at the same time, while user 1 requests a withdrawal and edits the
\* UPI id.
NextBonus ==
    \/ \E p \in Procs : \E u \in UserIds : \E member \in BOOLEAN : ClaimChannel(p, u, member)
    \/ \E p \in Procs : CcUpdate(p)
    \/ \E p \in Procs : CcCommit(p)
    \/ \E p \in Procs : pc[p] \in {"cc_update", "cc_commit"} /\ TxFail(p)
    \/ WithdrawMethod(1, "upi")
    \/ \E p \in Procs : ReceiveWithdrawAmt(p, 1, MIN_WITHDRAWAL * Rupee)
    \/ \E p \in Procs : WdSelect(p)
    \/ \E p \in Procs : WdDebit(p)
    \/ \E p \in Procs : WdInsert(p)
    \/ \E p \in Procs : WdCommit(p)
    \/ SetPaymentStart(1, "upi")
    \/ \E t \in PaymentTexts : ReceiveUpi(1, t)

SpecBonus == InitLedger /\ [][NextBonus]_vars

\* ------------------------------------------------- the duel specification
\* The pending submissions of the review queue are approved and rejected one
\* by one, by calls that may run at the same time on the same submission.
NextDuel ==
    \/ \E p \in Procs : \E g \in DOMAIN gmail : ApproveUpdate(p, g, ButtonUid(g))
    \/ \E p \in Procs : ApproveCount(p)
    \/ \E p \in Procs : ApproveCredit(p)
    \/ \E p \in Procs : ApproveReferral(p)
    \/ \E p \in Procs : ApproveRefCredit(p)
    \/ \E p \in Procs : ApproveCommit(p)
    \/ \E p \in Procs : \E g \in DOMAIN gmail : RejectUpdate(p, g, ButtonUid(g))
    \/ \E p \in Procs : RejectCommit(p)
    \/ \E p \in Procs : TxFail(p)

SpecDuel == InitReview /\ [][NextDuel]_vars

\* ------------------------------------------- the atomicity specification
\* The pending submissions of the review queue are approved, one by one and
\* in batches, and any statement of an approval may raise.
NextAtomic ==
    \/ \E p \in Procs : \E g \in DOMAIN gmail : ApproveUpdate(p, g, ButtonUid(g))
    \/ \E p \in Procs : ApproveCount(p)
    \/ \E p \in Procs : ApproveCredit(p)
    \/ \E p \in Procs : ApproveReferral(p)
    \/ \E p \in Procs : ApproveRefCredit(p)
    \/ \E p \in Procs : ApproveCommit(p)
    \/ \E p \in Procs : \E u \in UserIds : ApproveAllSelect(p, u)
    \/ \E p \in Procs : ApproveAllCount(p)
    \/ \E p \in Procs : ApproveAllUpdate(p)
    \/ \E p \in Procs : ApproveAllCredit(p)
    \/ \E p \in Procs : ApproveAllReferral(p)
    \/ \E p \in Procs : ApproveAllRefCredit(p)
    \/ \E p \in Procs : ApproveAllCommit(p)
    \/ \E p \in Procs : TxFail(p)

SpecAtomic == InitReview /\ [][NextAtomic]_vars

\* ------------------------------------------- the cooldown-time specification
\* User 1 submits, is refused, cancels and submits again, while the admin
\* approves and rejects the submissions and blocks and unblocks the user, and
\* the user claims the channel bonus.
NextStamp ==
    \/ SubmitStart(1)
    \/ \E t \in FlowTexts : ReceiveEmail(1, t)
    \/ \E p \in Procs : \E valid \in BOOLEAN : ReceivePassword(p, 1, valid)
    \/ \E p \in Procs : RpInsert(p)
    \/ \E p \in Procs : RpCount(p)
    \/ \E p \in Procs : RpCommit(p)
    \/ \E p \in Procs : RpSubmitTime(p)
    \/ \E p \in Procs : RpFail(p)
    \/ Cancel(1)
    \/ CooldownElapses
    \/ \E p \in Procs : \E g \in DOMAIN gmail : ApproveUpdate(p, g, ButtonUid(g))
    \/ \E p \in Procs : ApproveCount(p)
    \/ \E p \in Procs : ApproveCredit(p)
    \/ \E p \in Procs : ApproveReferral(p)
    \/ \E p \in Procs : ApproveCommit(p)
    \/ \E p \in Procs : \E g \in DOMAIN gmail : RejectUpdate(p, g, ButtonUid(g))
    \/ \E p \in Procs : RejectCommit(p)
    \/ \E p \in Procs : BlockUpdate(p, 1)
    \/ \E p \in Procs : BlockCommit(p)
    \/ \E p \in Procs : ClaimChannel(p, 1, TRUE)
    \/ \E p \in Procs : CcUpdate(p)
    \/ \E p \in Procs : CcCommit(p)

SpecStamp == InitRegistered /\ [][NextStamp]_vars

\* ------------------------------------------------- the queue specification
\* User 1 has one pending submission and submits another one, while the
\* admin approves and rejects, one by one and in batches.
InitQueue ==
    /\ gmail = [g \in {1} |-> GmailRow(1, SeedEmail(g), BASE_RATE * Rupee, 0)]
    /\ users = [u \in UserIds |->
                  IF u = 1 THEN [UserRow(NoId) EXCEPT !.total_gmail = 1] ELSE UserRow(NoId)]
    /\ withdrawals = EmptyFn
    /\ referrals = EmptyFn
    /\ wd_seq = 0
    /\ gm_seq = 1
    /\ hist = Hist0
    /\ now = 0
    /\ IdleProcs

NextQueue ==
    \/ SubmitStart(1)
    \/ \E t \in FlowTexts : ReceiveEmail(1, t)
    \/ \E p \in Procs : ReceivePassword(p, 1, TRUE)
    \/ \E p \in Procs : RpInsert(p)
    \/ \E p \in Procs : RpCount(p)
    \/ \E p \in Procs : RpCommit(p)
    \/ \E p \in Procs : RpSubmitTime(p)
    \/ \E p \in Procs : \E g \in DOMAIN gmail : ApproveUpdate(p, g, ButtonUid(g))
    \/ \E p \in Procs : ApproveCount(p)
    \/ \E p \in Procs : ApproveCredit(p)
    \/ \E p \in Procs : ApproveReferral(p)
    \/ \E p \in Procs : ApproveCommit(p)
    \/ \E p \in Procs : \E g \in DOMAIN gmail : RejectUpdate(p, g, ButtonUid(g))
    \/ \E p \in Procs : RejectCommit(p)
    \/ \E p \in Procs : ApproveAllSelect(p, 1)
    \/ \E p \in Procs : ApproveAllCount(p)
    \/ \E p \in Procs : ApproveAllUpdate(p)
    \/ \E p \in Procs : ApproveAllCredit(p)
    \/ \E p \in Procs : ApproveAllReferral(p)
    \/ \E p \in Procs : ApproveAllCommit(p)
    \/ \E p \in Procs : RejectAllCount(p, 1)
    \/ \E p \in Procs : RejectAllUpdate(p)
    \/ \E p \in Procs : RejectAllCommit(p)

SpecQueue == InitQueue /\ [][NextQueue]_vars

\* ---------------------------------------------- the service specification
\* User 1 has thirteen approved submissions at the base rate and a UPI id, a
\* balance of 260 and no withdrawal yet. The user opens the submission and the
\* withdrawal conversation, cancels, and requests withdrawals of the minimum;
\* the admin opens the withdrawal queue and approves or rejects the withdrawal
\* its message shows.
InitService ==
    /\ gmail = [g \in SeedRows |->
                  [GmailRow(1, SeedEmail(g), BASE_RATE * Rupee, 0) EXCEPT
                      !.status = "approved", !.review_date = 0]]
    /\ withdrawals = EmptyFn
    /\ users = [u \in UserIds |->
                  IF u = 1
                  THEN [UserRow(NoId) EXCEPT
                          !.balance = Cardinality(SeedRows) * BASE_RATE * Rupee,
                          !.total_gmail = Cardinality(SeedRows),
                          !.approved_gmail = Cardinality(SeedRows),
                          !.upi_id = SeedUpi(1)]
                  ELSE UserRow(NoId)]
    /\ referrals = EmptyFn
    /\ wd_seq = 0
    /\ gm_seq = Cardinality(SeedRows)
    /\ hist = Hist0
    /\ now = 0
    /\ IdleProcs

\* the admin presses Approve or Reject on the queue message
ProcessCard(p) ==
    /\ queue_card # 0
    /\ \/ AwUpdate(p, queue_card)
       \/ RwUpdate(p, queue_card)

\* a handler that has started runs its next statement
HandlerStep(p) ==
    \/ WdSelect(p)
    \/ WdDebit(p)
    \/ WdInsert(p)
    \/ WdCommit(p)
    \/ AwCommit(p)
    \/ RwRefund(p)
    \/ RwCommit(p)

NextService ==
    \/ SubmitStart(1)
    \/ Cancel(1)
    \/ WithdrawMethod(1, "upi")
    \/ \E p \in Procs : ReceiveWithdrawAmt(p, 1, MIN_WITHDRAWAL * Rupee)
    \/ \E p \in Procs : HandlerStep(p)
    \/ \E p \in Procs : ProcessCard(p)
    \/ WithdrawalQueue
    \/ Tick

\* run_polling runs every started handler to its end; the admin keeps opening
\* the queue and keeps pressing a button of the message it shows
SpecService ==
    /\ InitService
    /\ [][NextService]_vars
    /\ \A p \in Procs : WF_vars(HandlerStep(p))
    /\ WF_vars(WithdrawalQueue)
    /\ SF_vars(\E p \in Procs : ProcessCard(p))

\* ======================================================== review workflow
ApprovedRewards(u) ==
    LET rows == {g \in DOMAIN gmail : gmail[g].user_id = u /\ gmail[g].status = "approved"}
    IN SumOver(rows, [g \in rows |-> gmail[g].reward])

ReferralRewards(u) ==
    LET rows == {r \in DOMAIN referrals : referrals[r].referrer_id = u /\ referrals[r].rewarded = 1}
    IN SumOver(rows, [r \in rows |-> referrals[r].reward])

\* handler p commits its transaction in this step
Commits(p, label, answer) == pc[p] = label /\ pc'[p] = "idle" /\ resp' = answer

\* C1: however often and however interleaved approve_<gid> is called for one
\* submission, at most one call commits an approval and answers "Approved!";
\* that commit turns the row from pending to approved, raises the owner's
\* balance by exactly the row's reward and the approved counter by exactly 1;
\* a call that finds the row no longer pending answers "Already processed!"
\* and changes nothing.
C1_ApprovedOnce ==
    \A g \in DOMAIN gmail :
        /\ hist.approved[g] <= 1
        /\ hist.approved[g] = 1 => gmail[g].status = "approved"

C1_ApproveStep ==
    /\ \A p \in Procs : Commits(p, "approve_commit", "approve:approved") =>
          LET g == loc[p].gid
              o == gmail[g].user_id
          IN /\ gmail[g].status = "pending"
             /\ gmail'[g].status = "approved"
             /\ users'[o].balance = users[o].balance + gmail[g].reward
             /\ users'[o].approved_gmail = users[o].approved_gmail + 1
    /\ \A p \in Procs : \A g \in DOMAIN gmail :
          (ApproveUpdate(p, g, ButtonUid(g)) /\ gmail[g].status # "pending") =>
              /\ resp' = "approve:already_processed"
              /\ UNCHANGED <<dbvars, tx, hist>>

C1_ApproveExactlyOnce == [](C1_ApprovedOnce) /\ [][C1_ApproveStep]_vars

\* a submission was approved by one call and a later approve call on it was
\* answered "Already processed!"
C1_Witness ==
    \E g \in DOMAIN gmail :
        /\ hist.approved[g] = 1
        /\ resp = "approve:already_processed"
        /\ \A h \in DOMAIN gmail \ {g} : gmail[h].status = "pending"
        /\ users[gmail[g].user_id].balance = gmail[g].reward

\* C3: with one batch approval of a user's submissions racing single approvals
\* of them (and nothing rejected), the user's balance is the sum of the rewards
\* of the user's approved submissions, each counted once (plus the referral
\* rewards the user earned as referrer).
C3_NoDoublePay ==
    \A u \in UserIds :
        (/\ hist.batch_approved[u] <= 1
         /\ \A g \in DOMAIN gmail : gmail[g].user_id = u => gmail[g].status # "rejected")
        => users[u].balance = ApprovedRewards(u) + ReferralRewards(u)

\* C4: the referral reward of a referred user is credited to the referrer at
\* most once, in the transaction that flips rewarded from 0 to 1, and rewarded
\* never returns to 0.
C4_CreditedOnce ==
    \A r \in DOMAIN referrals :
        /\ hist.ref_credited[r] <= 1
        /\ hist.ref_credited[r] = 1 <=> referrals[r].rewarded = 1

C4_ReferralStep ==
    /\ \A r \in DOMAIN referrals : referrals[r].rewarded = 1 => referrals'[r].rewarded = 1
    /\ \A p \in Procs :
          (/\ \/ Commits(p, "approve_commit", "approve:approved")
              \/ Commits(p, "approve_all_commit", "approve_all:approved")
           /\ loc[p].referrer_id # NoId) =>
              LET r == loc[p].uid
                  o == referrals[r].referrer_id
              IN /\ referrals[r].rewarded = 0
                 /\ referrals'[r].rewarded = 1
                 /\ users'[o].balance = users[o].balance + referrals[r].reward

C4_ReferralOnce == [](C4_CreditedOnce) /\ [][C4_ReferralStep]_vars

\* the referred user has two approved submissions, approved by two single
\* approvals, and the referrer was credited
C4_Witness ==
    /\ 2 \in DOMAIN referrals
    /\ hist.ref_credited[2] = 1
    /\ ApprovedCount(gmail, 2) >= 2
    /\ hist.batch_approved[2] = 0

\* C7: a committed submission row changes only by going from pending to
\* approved or rejected; once approved or rejected, no single or batch
\* approve/reject changes its status, reward, review time or rejection reason.
C7_SubmissionStep ==
    \A g \in DOMAIN gmail :
        /\ g \in DOMAIN gmail'
        /\ gmail[g].status # "pending" => gmail'[g] = gmail[g]
        /\ gmail'[g].status # gmail[g].status => gmail'[g].status \in {"approved", "rejected"}
        /\ gmail'[g].reward = gmail[g].reward
        /\ gmail'[g].user_id = gmail[g].user_id

C7_SubmissionTerminal == [][C7_SubmissionStep]_vars

\* a submission was rejected at time 0, and after the clock advanced a single
\* approve, a single reject and both batch operations were tried on its owner
C7_Witness ==
    \E g \in DOMAIN gmail :
        /\ gmail[g].status = "rejected"
        /\ gmail[g].review_date < now
        /\ resp = "approve:already_processed"
        /\ \A h \in DOMAIN gmail \ {g} : gmail[h].status = "pending"


\* ---------------------------------------------------------------- C2
\* C2: no committed balance is ever negative, and a withdrawal request whose
\* amount exceeds the balance when the balance is read or debited ends with the
\* insufficient-balance answer, writes nothing and creates no withdrawal.
C2_NonNegative == \A u \in DOMAIN users : users[u].balance >= 0

C2_InsufficientStep ==
    \A p \in Procs :
        (/\ pc[p] \in {"wd_select", "wd_debit"}
         /\ pc'[p] # pc[p]
         /\ loc[p].amount > users[loc[p].uid].balance)
        => \/ WdFail(p)
           \/ /\ resp' \in {"withdraw:insufficient_balance", "withdraw:balance_changed"}
              /\ pc'[p] = "idle"
              /\ tx'[p] = EmptyTx
              /\ UNCHANGED <<dbvars, wd_seq, gm_seq>>

C2_BalanceNeverNegative == [](C2_NonNegative) /\ [][C2_InsufficientStep]_vars

\* C2 witness: a request that passed the balance read lost the race for the
\* balance and was refused at the debit, while the winner's withdrawal stands.
C2_Witness ==
    /\ resp = "withdraw:balance_changed"
    /\ \E w \in DOMAIN withdrawals :
          /\ withdrawals[w].status = "pending"
          /\ users[withdrawals[w].user_id].balance < MIN_WITHDRAWAL * Rupee
    /\ C2_NonNegative

\* ---------------------------------------------------------------- C5
\* C5: a withdrawal is created pending with its gross amount debited in the
\* same commit, moves only from pending to approved or rejected, never changes
\* once processed, and a balance changes only by that debit or by the refund
\* of the gross amount when a pending withdrawal is rejected.
C5_Step ==
    /\ \A w \in DOMAIN withdrawals' :
          IF w \notin DOMAIN withdrawals
          THEN /\ withdrawals'[w].status = "pending"
               /\ users'[withdrawals'[w].user_id].balance
                     = users[withdrawals'[w].user_id].balance - withdrawals'[w].amount
          ELSE /\ withdrawals[w].status # "pending" => withdrawals'[w] = withdrawals[w]
               /\ withdrawals'[w].status \in {"pending", "approved", "rejected"}
               /\ withdrawals'[w].amount = withdrawals[w].amount
    /\ \A u \in DOMAIN users :
          users'[u].balance # users[u].balance
          => \/ \E w \in DOMAIN withdrawals' \ DOMAIN withdrawals :
                   withdrawals'[w].user_id = u
             \/ \E w \in DOMAIN withdrawals :
                   /\ withdrawals[w].user_id = u
                   /\ withdrawals[w].status = "pending"
                   /\ withdrawals'[w].status = "rejected"
                   /\ users'[u].balance = users[u].balance + withdrawals[w].amount

C5_WithdrawalLifecycle == [][C5_Step]_vars

\* ---------------------------------------------------------------- C6
\* C6: the commit that turns a pending withdrawal into rejected adds exactly
\* its gross amount to the requester's balance and changes no other user;
\* the commit that turns it into approved changes no user at all.
C6_Step ==
    \A w \in DOMAIN withdrawals :
        /\ (withdrawals[w].status = "pending" /\ withdrawals'[w].status = "rejected")
           => users' = [users EXCEPT ![withdrawals[w].user_id].balance
                                        = @ + withdrawals[w].amount]
        /\ (withdrawals[w].status = "pending" /\ withdrawals'[w].status = "approved")
           => users' = users

C6_RefundWithRejection == [][C6_Step]_vars

\* C6 witness: one requested withdrawal has been rejected and another one
\* approved.
C6_Witness ==
    /\ \E w \in DOMAIN withdrawals : w > 1 /\ withdrawals[w].status = "rejected"
    /\ \E w \in DOMAIN withdrawals : w > 1 /\ withdrawals[w].status = "approved"
    /\ resp \in {"rw:rejected", "aw:approved"}

\* ---------------------------------------------------------------- C9
\* C9 as stated: for every amount typed the computed fee and net add up to
\* that amount exactly, and so do the values stored on a withdrawal.
C9_StoredSum ==
    \A w \in DOMAIN withdrawals :
        withdrawals[w].fee + withdrawals[w].final_amount = withdrawals[w].amount

HalfUpCents(x) == ((x + (50 * Cent)) \div (100 * Cent)) * Cent

\* the scenario of the claim: balance 150, request 100, then 100 again
C10_ScenarioStep ==
    \A p \in Procs :
        /\ (/\ pc[p] = "wd_commit" /\ pc'[p] = "idle"
            /\ loc[p].amount = 100 * Rupee
            /\ users[loc[p].uid].balance = 150 * Rupee)
           => /\ loc[p].wid \in DOMAIN withdrawals'
              /\ withdrawals'[loc[p].wid].fee = 5 * Rupee
              /\ withdrawals'[loc[p].wid].final_amount = 95 * Rupee
              /\ users'[loc[p].uid].balance = 50 * Rupee
        /\ (/\ pc[p] = "wd_select" /\ pc'[p] # "wd_select"
            /\ loc[p].amount = 100 * Rupee
            /\ users[loc[p].uid].balance = 50 * Rupee)
           => /\ resp' = "withdraw:insufficient_balance"
              /\ pc'[p] = "idle"
              /\ tx'[p] = EmptyTx
              /\ UNCHANGED <<dbvars, wd_seq, gm_seq>>

\* C10 as stated: fee = max(gross * 5%, 5) rounded half-up to two decimals and
\* net = gross - fee, for the amount as typed; with the scenario.
C10_FeeOfGross ==
    \A p \in Procs : pc[p] \in WdLabels
        => /\ loc[p].fee = HalfUpCents(Max(loc[p].amount * WITHDRAWAL_FEE_PERCENT,
                                           WITHDRAWAL_FEE_MIN * Rupee * 100))
           /\ loc[p].final_amount = loc[p].amount - loc[p].fee

C10_FeeOfRoundedGross ==
    \A p \in Procs : pc[p] \in WdLabels
        => /\ loc[p].fee = HalfUpCents(Max(RoundDecimal(loc[p].amount) * WITHDRAWAL_FEE_PERCENT,
                                           WITHDRAWAL_FEE_MIN * Rupee * 100))
           /\ loc[p].final_amount = RoundDecimal(loc[p].amount) - loc[p].fee

C8_UniqueNormalized ==
    \A g1, g2 \in DOMAIN gmail :
        g1 # g2 => normalize_email(gmail[g1].email) # normalize_email(gmail[g2].email)

\* ---------------------------------------------------------------- C11
NetOfApprovedWithdrawals(u) ==
    LET rows == {w \in DOMAIN withdrawals :
                    withdrawals[w].user_id = u /\ withdrawals[w].status = "approved"}
    IN SumOver(rows, [w \in rows |-> withdrawals[w].final_amount])

\* C11: in every committed state a user's balance is the rewards of the
\* user's approved submissions, plus the rewards of the rewarded referrals the
\* user referred, plus at most one channel bonus, minus the net amounts of
\* the user's approved withdrawals.
C11_BalanceFromLog ==
    \A u \in DOMAIN users :
        \E bonus \in {0, CHANNEL_BONUS * Rupee} :
            users[u].balance = ApprovedRewards(u) + ReferralRewards(u) + bonus
                                 - NetOfApprovedWithdrawals(u)

\* ---------------------------------------------------------------- C12
\* C12: a referral that is rewarded belongs to a referred user with at least
\* one approved submission.
C12_RewardedHasApproval ==
    \A r \in DOMAIN referrals :
        referrals[r].rewarded = 1 => ApprovedCount(gmail, r) >= 1

\* ---------------------------------------------------------------- C13
\* C13: no committed state has a referred user with an approved submission
\* and an unrewarded referral, and the commit that marks the referral
\* rewarded raises the referrer's balance by the referral reward.
C13_NoUnrewardedApproval ==
    \A r \in DOMAIN referrals :
        ApprovedCount(gmail, r) >= 1 => referrals[r].rewarded = 1

C13_RewardStep ==
    \A r \in DOMAIN referrals :
        (referrals[r].rewarded = 0 /\ referrals'[r].rewarded = 1)
        => LET o == referrals[r].referrer_id IN
           /\ ApprovedCount(gmail, r) = 0
           /\ users'[o].balance = users[o].balance + referrals[r].reward

C13_RewardWithFirstApproval == [](C13_NoUnrewardedApproval) /\ [][C13_RewardStep]_vars

\* C13 witness: the referred user's two submissions were approved by two
\* single approvals and the referral is rewarded.
C13_Witness ==
    \E r \in DOMAIN referrals :
        /\ referrals[r].rewarded = 1
        /\ ApprovedCount(gmail, r) = 2
        /\ hist.batch_approved[r] = 0
        /\ users[referrals[r].referrer_id].balance >= referrals[r].reward
        /\ \A p \in Procs : pc[p] = "idle"

\* ---------------------------------------------------------------- C14
\* C14: receive_password takes the reward from the owner's tier rate when it
\* runs and the row is created with that reward; no step changes the reward
\* of an existing submission, whatever happens to the owner's approved count;
\* the commit of a single approval credits the owner exactly the stored
\* reward.
C14_Step ==
    /\ \A g \in DOMAIN gmail :
          g \in DOMAIN gmail' /\ gmail'[g].reward = gmail[g].reward
    /\ \A p \in Procs :
          (pc[p] = "idle" /\ pc'[p] = "rp_insert")
          => loc'[p].reward = calc_rate(users[loc'[p].uid].approved_gmail) * Rupee
    /\ \A g \in DOMAIN gmail' \ DOMAIN gmail :
          \E p \in Procs : /\ pc[p] = "rp_commit"
                           /\ gmail'[g].user_id = loc[p].uid
                           /\ gmail'[g].reward = loc[p].reward
    /\ \A p \in Procs :
          Commits(p, "approve_commit", "approve:approved")
          => LET g == loc[p].gid IN
             /\ gmail[g].status = "pending" /\ gmail'[g].status = "approved"
             /\ users'[gmail[g].user_id].balance
                   = users[gmail[g].user_id].balance + gmail[g].reward

C14_RewardFrozen == [][C14_Step]_vars

\* C14 witness: two submissions created at the base rate were approved one by
\* one, the second when the owner had already reached the middle tier, and
\* each was credited at the base rate.
C14_Witness ==
    /\ users[1].approved_gmail = MID_THRESHOLD + 1
    /\ calc_rate(users[1].approved_gmail) = MID_RATE
    /\ users[1].balance = (MID_THRESHOLD + 1) * BASE_RATE * Rupee
    /\ \A g \in DOMAIN gmail : gmail[g].status = "approved" /\ gmail[g].reward = BASE_RATE * Rupee
    /\ hist.batch_approved[1] = 0
    /\ \A p \in Procs : pc[p] = "idle"

\* ---------------------------------------------------------------- C15
\* C15: no submission row is committed for a user who is blocked at that
\* moment.
C15_NoInsertWhileBlocked ==
    [][\A g \in DOMAIN gmail' \ DOMAIN gmail : ~is_blocked(gmail'[g].user_id)]_vars

\* ---------------------------------------------------------------- C16
\* C16: a submission row of a user is committed only when every earlier
\* submission of that user was created at least the cooldown window before.
C16_CreationsCooldownApart ==
    [][\A g \in DOMAIN gmail' \ DOMAIN gmail : \A h \in DOMAIN gmail :
          gmail[h].user_id = gmail'[g].user_id
              => gmail'[g].submit_date - gmail[h].submit_date >= SUBMIT_COOLDOWN]_vars

\* ---------------------------------------------------------------- C17
\* C17: for every user and every day, at most MAX_WITHDRAWALS_PER_DAY of the
\* user's withdrawals requested that day are pending or approved.
C17_DailyCap ==
    \A u \in UserIds : \A day \in 0..MaxDay :
        Cardinality({w \in DOMAIN withdrawals :
                        /\ withdrawals[w].user_id = u
                        /\ Date(withdrawals[w].request_date) = day
                        /\ withdrawals[w].status \in {"pending", "approved"}})
            <= MAX_WITHDRAWALS_PER_DAY

\* ---------------------------------------------------------------- C18
\* C18: for every user, at most MAX_PENDING_WITHDRAWALS withdrawals are
\* pending.
C18_PendingCap ==
    \A u \in UserIds :
        Cardinality({w \in DOMAIN withdrawals :
                        withdrawals[w].user_id = u /\ withdrawals[w].status = "pending"})
            <= MAX_PENDING_WITHDRAWALS

\* ---------------------------------------------------------------- C19
\* C19: every step of a withdrawal request either adds no withdrawal row and
\* leaves every user row as it was, or adds one row of the requester and
\* lowers the requester's balance by exactly that row's gross amount, nobody
\* else's row changing.
C19_DebitWithRow ==
    [][\A p \in Procs : (pc[p] \in WdLabels /\ pc'[p] # pc[p]) =>
          LET u == loc[p].uid
              new == DOMAIN withdrawals' \ DOMAIN withdrawals IN
          IF new = {}
          THEN users' = users
          ELSE /\ Cardinality(new) = 1
               /\ \A w \in new :
                    /\ withdrawals'[w].user_id = u
                    /\ users' = [users EXCEPT ![u].balance = @ - withdrawals'[w].amount]]_vars

\* ---------------------------------------------------------------- C20
\* C20: a request whose actor is not the administrator changes no
\* submission's status, no withdrawal's status and no user's blocked flag.
\* In SpecActor every request comes from such an actor, so there no step
\* changes any of them.
C20_OnlyAdminChanges ==
    [][/\ \A g \in DOMAIN gmail : gmail'[g].status = gmail[g].status
       /\ \A w \in DOMAIN withdrawals : withdrawals'[w].status = withdrawals[w].status
       /\ \A u \in DOMAIN users : users'[u].is_blocked = users[u].is_blocked]_vars

\* ---------------------------------------------------------------- C21
\* C21: every commit that changes a submission's status, a withdrawal's
\* status or a user's blocked flag leaves the audit entry of that action in
\* the audit log, and the log holds no approval or rejection entry for a
\* submission or withdrawal that is not in that status.
C21_AuditWithMutation ==
    /\ [](\A e \in audit_log :
            /\ e.action = "approve_gmail" => gmail[e.details].status = "approved"
            /\ e.action = "reject_gmail" => gmail[e.details].status = "rejected"
            /\ e.action = "approve_withdrawal" => withdrawals[e.details].status = "approved"
            /\ e.action = "reject_withdrawal" => withdrawals[e.details].status = "rejected")
    /\ [][/\ \A g \in DOMAIN gmail : gmail'[g].status # gmail[g].status =>
                \E e \in audit_log' :
                    /\ e.target_user_id = gmail[g].user_id
                    /\ e.action \in (IF gmail'[g].status = "approved"
                                     THEN {"approve_gmail", "approve_all_gmail"}
                                     ELSE {"reject_gmail", "reject_all_gmail"})
          /\ \A w \in DOMAIN withdrawals : withdrawals'[w].status # withdrawals[w].status =>
                \E e \in audit_log' :
                    /\ e.details = w
                    /\ e.action = (IF withdrawals'[w].status = "approved"
                                   THEN "approve_withdrawal" ELSE "reject_withdrawal")
          /\ \A u \in DOMAIN users : users'[u].is_blocked # users[u].is_blocked =>
                \E e \in audit_log' :
                    /\ e.target_user_id = u
                    /\ e.action = (IF users'[u].is_blocked = 1
                                   THEN "block_user" ELSE "unblock_user")]_vars

\* ---------------------------------------------------------------- C22
\* C22: every notice that has been handed to Telegram tells of a mutation
\* that is committed: a referral-reward notice of a rewarded referral, a
\* verification or rejection notice of a submission or withdrawal in that
\* status.
C22_NoticeAfterCommit ==
    \A n \in notices :
        /\ n.kind = "referral_reward" =>
              n.ref \in DOMAIN referrals /\ referrals[n.ref].rewarded = 1
        /\ n.kind = "gmail_verified" => gmail[n.ref].status = "approved"
        /\ n.kind = "gmail_rejected" => gmail[n.ref].status = "rejected"
        /\ n.kind = "withdrawal_approved" => withdrawals[n.ref].status = "approved"
        /\ n.kind = "withdrawal_rejected" => withdrawals[n.ref].status = "rejected"

\* ---------------------------------------------------------------- C23
\* a step in which a notice is handed to Telegram and not delivered
FailedNoticeStep == \E n \in notices' \ notices : ~n.delivered

\* C23: a step whose notification fails does what the step does when the
\* notification succeeds: either the handler commits exactly its pending
\* writes and gives an answer that is not an error, or its transaction goes
\* on, the committed tables untouched and its writes kept.
C23_FailedNoticeHarmless ==
    [][FailedNoticeStep =>
          \A p \in Procs : pc'[p] # pc[p] =>
             \/ /\ pc'[p] = "idle"
                /\ users' = Merge(users, tx[p].users)
                /\ gmail' = Merge(gmail, tx[p].gmail)
                /\ withdrawals' = Merge(withdrawals, tx[p].withdrawals)
                /\ referrals' = Merge(referrals, tx[p].referrals)
                /\ tx[p] # EmptyTx
                /\ resp' \notin {"error", "none"}
             \/ /\ pc'[p] # "idle"
                /\ UNCHANGED dbvars
                /\ tx'[p] # EmptyTx
                /\ \A u \in DOMAIN tx[p].users : u \in DOMAIN tx'[p].users
                /\ tx'[p].gmail = tx[p].gmail
                /\ tx'[p].referrals = tx[p].referrals]_vars

\* the referrer has blocked the bot, the referral-reward notice failed, and
\* the reward is committed all the same
C23_Witness ==
    /\ \E n \in notices : n.kind = "referral_reward" /\ ~n.delivered
                          /\ referrals[n.ref].rewarded = 1
                          /\ users[n.to].balance >= REFERRAL_REWARD * Rupee
    /\ \E n \in notices : n.kind = "gmail_verified" /\ ~n.delivered

\* ---------------------------------------------------------------- C24
\* C24: in every committed state a user's total_gmail is the number of the
\* user's submission rows and last_submit_time is recorded for the newest of
\* them; and receive_password answers "Error occurred!" only when it has
\* committed no row.
C24_CreateAllOrNothing ==
    /\ [](\A u \in DOMAIN users :
            LET rows == {g \in DOMAIN gmail : gmail[g].user_id = u} IN
            /\ users[u].total_gmail = Cardinality(rows)
            /\ \A g \in rows : /\ users[u].last_submit_time # NoTime
                               /\ users[u].last_submit_time >= gmail[g].submit_date)
    /\ [][\A p \in Procs :
            (pc[p] \in RpLabels /\ pc'[p] = "idle" /\ resp' = "password:error")
                => loc[p].gid \notin DOMAIN gmail]_vars

\* ---------------------------------------------------------------- C25
\* C25: no committed Referral row links a user to themselves or to a referrer
\* who has no user row; the referral step of /start writes a row for the new
\* user exactly when the argument names another user who exists, with
\* rewarded = 0; and a committed Referral row is never replaced, so a referred
\* user keeps one referrer whatever is retried.
C25_RegisterReferral ==
    /\ [](\A r \in DOMAIN referrals :
            /\ referrals[r].referrer_id # r
            /\ referrals[r].referrer_id \in DOMAIN users
            /\ r \in DOMAIN users
            /\ users[r].referrer_id = referrals[r].referrer_id)
    /\ [][/\ \A p \in Procs : (pc[p] = "start_referral" /\ pc'[p] = "start_commit") =>
                LET u == loc[p].uid
                    ref_id == loc[p].referrer_id
                    valid == ref_id # NoId /\ ref_id # u /\ ref_id \in DOMAIN users IN
                /\ valid <=> u \in DOMAIN tx'[p].referrals
                /\ valid => tx'[p].referrals[u] = [referrer_id |-> ref_id,
                                                   reward |-> REFERRAL_REWARD * Rupee,
                                                   rewarded |-> 0]
          /\ \A r \in DOMAIN referrals :
                r \in DOMAIN referrals' /\ referrals'[r] = referrals[r]]_vars

\* user 1 joined with user 2's id as argument before user 2 existed and has
\* no Referral row; user 2 joined through user 1's link and has one, unrewarded
C25_Witness ==
    /\ DOMAIN users = UserIds
    /\ DOMAIN referrals = {2}
    /\ referrals[2].referrer_id = 1 /\ referrals[2].rewarded = 0
    /\ users[1].referrer_id = 2
    /\ resp = "start:menu"
    /\ \A p \in Procs : pc[p] = "idle"

\* ---------------------------------------------------------------- C26
\* C26: the answer receive_email gives a user for a duplicate is the same
\* whichever existing submission was found: the user's own or another's, in
\* whatever status.
C26_GenericDuplicate ==
    \A u \in UserIds : \A g, h \in DOMAIN gmail : DuplicateAnswer(u, g) = DuplicateAnswer(u, h)

\* ---------------------------------------------------------------- C27
\* C27: the reward receive_password computes is the base rate when the user's
\* approved count is below 50, the middle rate from 50 to 99 and the top rate
\* from 100 on; and the rate never falls as the count grows.
C27_TierRule ==
    /\ [][\A p \in Procs : (pc[p] = "idle" /\ pc'[p] = "rp_insert") =>
            LET a == users[loc'[p].uid].approved_gmail IN
            /\ a < MID_THRESHOLD => loc'[p].reward = BASE_RATE * Rupee
            /\ (a >= MID_THRESHOLD /\ a < TOP_THRESHOLD) => loc'[p].reward = MID_RATE * Rupee
            /\ a >= TOP_THRESHOLD => loc'[p].reward = TOP_RATE * Rupee]_vars
    /\ [](\A a \in 0..MaxApproved : \A b \in a..MaxApproved : calc_rate(a) <= calc_rate(b))

\* a user with exactly 100 approved submissions has a new submission
\* committed at the top rate
C27_Witness ==
    /\ users[1].approved_gmail = TOP_THRESHOLD
    /\ \E g \in DOMAIN gmail : gmail[g].status = "pending" /\ gmail[g].reward = TOP_RATE * Rupee

\* ---------------------------------------------------------------- C28
\* C28: once a withdrawal row is committed, no step (a profile edit of the
\* UPI id or crypto address, an approval, a rejection, another request)
\* changes its amount, fee, final_amount, method or payment_info, and the row
\* is never removed; no open transaction holds a changed copy either.
FrozenFields(row) == <<row.user_id, row.amount, row.fee, row.final_amount, row.method,
                       row.payment_info>>

C28_FrozenAtCreation ==
    /\ [][\A w \in DOMAIN withdrawals :
            /\ w \in DOMAIN withdrawals'
            /\ FrozenFields(withdrawals'[w]) = FrozenFields(withdrawals[w])]_vars
    /\ [](\A p \in Procs : \A w \in DOMAIN tx[p].withdrawals \cap DOMAIN withdrawals :
            FrozenFields(tx[p].withdrawals[w]) = FrozenFields(withdrawals[w]))

\* a UPI withdrawal that has been approved or rejected still carries the UPI
\* id it was requested with, although the profile now holds another one
C28_Witness ==
    \E w \in DOMAIN withdrawals :
        /\ w > 1
        /\ withdrawals[w].method = "upi"
        /\ withdrawals[w].status \in {"approved", "rejected"}
        /\ withdrawals[w].payment_info = SeedUpi(1)
        /\ users[1].upi_id = "new@upi"

\* ---------------------------------------------------------------- C29
\* C29: in the submission and the withdrawal conversation the ledger (rows,
\* balances, counters, last_submit_time, the id sequences, open transactions)
\* is written only by the statements of the terminal step (receive_password
\* after a valid password, receive_withdraw_amt after an accepted amount):
\* entering a flow, sending the email, choosing the method, a refused input
\* and /cancel leave it as it was.
TerminalLabels == RpLabels \cup WdLabels

C29_WrittenAtTerminalStepOnly ==
    [][(<<dbvars, wd_seq, gm_seq, tx>>' # <<dbvars, wd_seq, gm_seq, tx>>)
          => \E p \in Procs : pc[p] \in TerminalLabels]_vars

\* the user has sent an email address, is asked for the password, and the
\* ledger is still the seeded one
C29_Witness ==
    /\ conv[1].gmail = "PASSWORD"
    /\ user_data[1].email # <<>>
    /\ DOMAIN gmail = SeedRows
    /\ gm_seq = Cardinality(SeedRows)
    /\ users[1].last_submit_time = NoTime
    /\ users[1].total_gmail = Cardinality(SeedRows)
    /\ \A p \in Procs : pc[p] = "idle"

\* ---------------------------------------------------------------- C30
\* C30: however claim_channel calls of one user are repeated or interleaved,
\* a call that commits the bonus finds the user's committed channel_claimed
\* at 0, sets it to 1 and raises the balance by exactly the bonus; the flag
\* changes in no other step and never returns to 0, so each user is credited
\* at most once.
C30_BonusOnce ==
    [][/\ \A p \in Procs : Commits(p, "cc_commit", "claim:credited") =>
            LET u == loc[p].uid IN
            /\ users[u].channel_claimed = 0
            /\ users'[u].channel_claimed = 1
            /\ users'[u].balance = users[u].balance + (CHANNEL_BONUS * Rupee)
       /\ \A u \in DOMAIN users :
            /\ u \in DOMAIN users'
            /\ users'[u].channel_claimed >= users[u].channel_claimed
            /\ users'[u].channel_claimed # users[u].channel_claimed =>
                  \E p \in Procs : /\ Commits(p, "cc_commit", "claim:credited")
                                   /\ loc[p].uid = u]_vars

\* user 1 has the bonus, has requested a withdrawal since, and a further
\* claim was answered "Already claimed!"
C30_Witness ==
    /\ users[1].channel_claimed = 1
    /\ resp = "claim:already"
    /\ \E w \in DOMAIN withdrawals : withdrawals[w].status = "pending"
    /\ users[1].balance = (150 * Rupee) + (CHANNEL_BONUS * Rupee) - (MIN_WITHDRAWAL * Rupee)

\* ---------------------------------------------------------------- C31
\* C31: when approve_<gid> and reject_<gid> race on one pending submission,
\* at most one of them commits and it finds the row pending; the call that
\* finds the row processed answers "Already processed!" and changes nothing;
\* a committed rejection leaves every balance and counter as it was, and in
\* every committed state a user's balance is the rewards of the user's
\* approved submissions (plus the referral rewards earned), so the owner was
\* credited exactly if the approval won.
C31_BalanceFollowsWinner ==
    \A u \in DOMAIN users :
        /\ users[u].balance = ApprovedRewards(u) + ReferralRewards(u)
        /\ users[u].approved_gmail = ApprovedCount(gmail, u)

C31_DuelStep ==
    /\ \A p \in Procs : Commits(p, "approve_commit", "approve:approved") =>
          /\ gmail[loc[p].gid].status = "pending"
          /\ gmail'[loc[p].gid].status = "approved"
    /\ \A p \in Procs : Commits(p, "reject_commit", "reject:rejected") =>
          /\ gmail[loc[p].gid].status = "pending"
          /\ gmail'[loc[p].gid].status = "rejected"
          /\ UNCHANGED users
    /\ \A g \in DOMAIN gmail :
          gmail[g].status # "pending" =>
              /\ gmail'[g] = gmail[g]
              /\ \A p \in Procs :
                    /\ ApproveUpdate(p, g, ButtonUid(g)) =>
                          resp' = "approve:already_processed" /\ UNCHANGED <<dbvars, tx>>
                    /\ RejectUpdate(p, g, ButtonUid(g)) =>
                          resp' = "reject:already_processed" /\ UNCHANGED <<dbvars, tx>>

C31_ApproveRejectDuel == [](C31_BalanceFollowsWinner) /\ [][C31_DuelStep]_vars

\* the rejection won: the row is rejected, its owner has no credit, and the
\* approve call on it was answered "Already processed!"
C31_Witness ==
    \E g \in DOMAIN gmail :
        /\ gmail[g].status = "rejected"
        /\ resp = "approve:already_processed"
        /\ users[gmail[g].user_id].balance = 0
        /\ \A h \in DOMAIN gmail \ {g} : gmail[h].status = "pending"

\* ---------------------------------------------------------------- C32
\* C32: the committed rows change only in the commit step of an approval, and
\* that one step carries all of its effects: the status, the owner's credit
\* and counter and, when the referral UPDATE returned a row, the referral
\* flag and the referrer's credit; an approval that fails at any statement
\* answers "Error occurred!" and leaves every committed row as it was.
ReferralPart(p) ==
    LET u == loc[p].uid
        r == loc[p].referrer_id
    IN IF r # NoId
       THEN /\ referrals[u].rewarded = 0
            /\ referrals'[u].rewarded = 1
            /\ users'[r].balance = users[r].balance + loc[p].ref_reward
       ELSE UNCHANGED referrals

C32_Step ==
    /\ dbvars' # dbvars =>
          \E p \in Procs : \/ Commits(p, "approve_commit", "approve:approved")
                           \/ Commits(p, "approve_all_commit", "approve_all:approved")
    /\ \A p \in Procs : (pc[p] # "idle" /\ pc'[p] = "idle" /\ resp' = "error") =>
          /\ UNCHANGED dbvars
          /\ tx'[p] = EmptyTx
    /\ \A p \in Procs : Commits(p, "approve_commit", "approve:approved") =>
          LET u == loc[p].uid IN
          /\ gmail[loc[p].gid].status = "pending"
          /\ gmail'[loc[p].gid].status = "approved"
          /\ users'[u].balance = users[u].balance + loc[p].reward
          /\ users'[u].approved_gmail = users[u].approved_gmail + 1
          /\ ReferralPart(p)
    /\ \A p \in Procs : Commits(p, "approve_all_commit", "approve_all:approved") =>
          LET u == loc[p].uid IN
          /\ \A g \in DOMAIN gmail :
                gmail'[g] # gmail[g] =>
                   gmail[g].user_id = u /\ gmail[g].status = "pending"
                                        /\ gmail'[g].status = "approved"
          /\ users'[u].balance = users[u].balance + loc[p].total_reward
          /\ users'[u].approved_gmail = users[u].approved_gmail + loc[p].count
          /\ ReferralPart(p)

C32_ApprovalAtomic == [][C32_Step]_vars

\* an approval of the referred user's submission has failed after its first
\* statement: every submission is still pending, no balance or counter has
\* changed and the referral is not rewarded
C32_Witness ==
    /\ resp = "error"
    /\ \A p \in Procs : pc[p] = "idle"
    /\ \A g \in DOMAIN gmail : gmail[g].status = "pending"
    /\ \A u \in DOMAIN users : users[u].balance = 0 /\ users[u].approved_gmail = 0
    /\ 2 \in DOMAIN referrals /\ referrals[2].rewarded = 0
    /\ \E g \in DOMAIN gmail : gmail[g].user_id = 2

\* ---------------------------------------------------------------- C33
\* C33: a user's last_submit_time changes only in the step in which
\* receive_password, having committed the user's new submission row, runs
\* update_submit_time and answers "Submitted Successfully!"; a refused,
\* invalid, duplicate or failed attempt and every other operation leave it as
\* it was, and no open transaction holds another value of it.
C33_StampStep ==
    \A u \in DOMAIN users :
        (u \in DOMAIN users' /\ users'[u].last_submit_time # users[u].last_submit_time) =>
            \E p \in Procs :
                /\ Commits(p, "rp_submit_time", "password:submitted")
                /\ loc[p].uid = u
                /\ loc[p].gid \in DOMAIN gmail
                /\ gmail[loc[p].gid].user_id = u
                /\ users'[u].last_submit_time = now

C33_NoStaleStamp ==
    \A p \in Procs : \A u \in DOMAIN tx[p].users :
        tx[p].users[u].last_submit_time = users[u].last_submit_time

C33_StampOnlyOnCreation == [](C33_NoStaleStamp) /\ [][C33_StampStep]_vars

\* after one successful submission at time 0 the cooldown has passed and a
\* further attempt with the same address was refused as a duplicate:
\* last_submit_time is still the time of the creation
C33_Witness ==
    /\ now = SUBMIT_COOLDOWN
    /\ users[1].last_submit_time = 0
    /\ resp = DuplicateAnswer(1, 1)
    /\ DOMAIN gmail = {1}

\* ---------------------------------------------------------------- C34
\* C34: /start of a user who has a row, with or without a referral link,
\* shows the menu and writes nothing; no step changes the referrer_id of a
\* committed user or the referrer of a committed referral, and a referral row
\* appears only in the step that commits the row of its referred user.
C34_Step ==
    /\ \A u \in DOMAIN users :
          /\ u \in DOMAIN users'
          /\ users'[u].referrer_id = users[u].referrer_id
          /\ (u \in DOMAIN referrals') = (u \in DOMAIN referrals)
          /\ u \in DOMAIN referrals =>
                referrals'[u].referrer_id = referrals[u].referrer_id
    /\ \A r \in DOMAIN referrals' \ DOMAIN referrals :
          r \notin DOMAIN users /\ r \in DOMAIN users' /\ users'[r].referrer_id = referrals'[r].referrer_id
    /\ \A p \in Procs : \A u \in DOMAIN users : \A arg \in StartArgs :
          Start(p, u, arg) => /\ resp' \in {"start:menu", "start:blocked"}
                              /\ UNCHANGED <<dbvars, tx, pc>>

C34_ReferralAtFirstContactOnly == [][C34_Step]_vars

\* both users have a row, user 2 was referred by user 1, user 1 joined without
\* a link and has no referral row, and the last /start was answered by the menu
C34_Witness ==
    /\ DOMAIN users = UserIds
    /\ users[1].referrer_id = NoId
    /\ users[2].referrer_id = 1
    /\ DOMAIN referrals = {2}
    /\ resp = "start:menu"
    /\ \A p \in Procs : pc[p] = "idle"

\* ---------------------------------------------------------------- C35
\* C35: every committed withdrawal row has method upi or usdt and a
\* destination that is not NULL, whatever the user did in the submission
\* conversation, the payment setup or with /cancel between choosing the
\* method and sending the amount.
C35_MethodAndDestination ==
    \A w \in DOMAIN withdrawals :
        /\ withdrawals[w].method \in {"upi", "usdt"}
        /\ withdrawals[w].payment_info # NoText

\* ---------------------------------------------------------------- C36
\* C36: in every committed state approved_gmail of a user is the number of
\* the user's approved submission rows and total_gmail the number of the
\* user's submission rows.
C36_CountersMatchRows ==
    \A u \in DOMAIN users :
        /\ users[u].approved_gmail = ApprovedCount(gmail, u)
        /\ users[u].total_gmail = Cardinality({g \in DOMAIN gmail : gmail[g].user_id = u})

\* ---------------------------------------------------------------- C38
\* C38: the commit of approve_all_<uid> raises the user's balance by the sum
\* of the rewards of the rows it turns from pending to approved and the
\* approved counter by their number.
C38_BatchCreditsWhatItApproves ==
    [][\A p \in Procs : Commits(p, "approve_all_commit", "approve_all:approved") =>
          LET u == loc[p].uid
              rows == {g \in DOMAIN gmail : /\ gmail[g].status = "pending"
                                           /\ gmail'[g].status = "approved"}
          IN /\ users'[u].balance =
                   users[u].balance + SumOver(rows, [g \in rows |-> gmail[g].reward])
             /\ users'[u].approved_gmail = users[u].approved_gmail + Cardinality(rows)]_vars

\* ---------------------------------------------------------------- C37
GrossOfOpenWithdrawals(u) ==
    LET rows == {w \in DOMAIN withdrawals :
                    /\ withdrawals[w].user_id = u
                    /\ withdrawals[w].status \in {"pending", "approved"}}
    IN SumOver(rows, [w \in rows |-> withdrawals[w].amount])

\* C37: in every committed state a user's balance is the rewards of the
\* user's approved submissions, plus the rewards of the rewarded referrals
\* the user referred, plus the channel bonus if claimed, minus the gross
\* amounts of the user's pending and approved withdrawals.
C37_MoneyConserved ==
    \A u \in DOMAIN users :
        users[u].balance = ApprovedRewards(u) + ReferralRewards(u)
                             + (IF users[u].channel_claimed = 1 THEN CHANNEL_BONUS * Rupee ELSE 0)
                             - GrossOfOpenWithdrawals(u)

\* ---------------------------------------------------------------- C39
C39_Step ==
    \A w \in DOMAIN withdrawals' :
        LET u == withdrawals'[w].user_id
        IN  /\ w \notin DOMAIN withdrawals
               => users[u].balance - users'[u].balance = withdrawals'[w].amount
            /\ (/\ w \in DOMAIN withdrawals
                /\ withdrawals[w].status = "pending"
                /\ withdrawals'[w].status = "rejected")
               => users'[u].balance - users[u].balance = withdrawals[w].amount

\* C39: the amount taken from the balance when a withdrawal is requested is
\* the gross amount stored on the withdrawal, and the amount given back when
\* it is rejected is that same stored amount, also for requested amounts with
\* more than two decimals, so a request followed by its rejection leaves the
\* balance where it was.
C39_DebitStoredRefundAgree == [][C39_Step]_vars

\* ---------------------------------------------------------------- C40
\* C40: the withdrawal queue shows the pending withdrawal with the earliest
\* request time, so when the admin keeps approving or rejecting the withdrawal
\* shown, every pending withdrawal is eventually processed.
C40_PendingEventuallyProcessed ==
    \A w \in 1..MaxRequests :
        (w \in DOMAIN withdrawals /\ withdrawals[w].status = "pending")
        ~> (w \in DOMAIN withdrawals /\ withdrawals[w].status # "pending")
====
